---- MODULE Spec2Model ----
(***************************************************************************)
(* Verification model of the travel assistant's tool-orchestrating        *)
(* reasoning core (TravelReasoningAgent).                                  *)
(*                                                                         *)
(* processMessage is an async function: everything between two awaits     *)
(* runs atomically on the JavaScript event loop, so each action below is   *)
(* one such segment, ending at the next await (initialize, tool.func,      *)
(* llm.invoke) or at the return.  The awaited collaborators (the LLM, the  *)
(* tool executors) are the environment: they resolve with one of a small   *)
(* set of values or reject.                                                *)
(*                                                                         *)
(* Text is modelled by the features the code tests on it: which tool       *)
(* names a message content includes, what follows "returned:\n" in it,     *)
(* which validation patterns a draft answer matches.                       *)
(***************************************************************************)
EXTENDS Integers, Sequences, FiniteSets, TLC

(***************************************************************************)
(* Bounds of the model                                                     *)
(***************************************************************************)
\* most tool calls one user message makes detectRequiredTools schedule
MaxTools == 2
\* no new run starts once this many messages were appended to the history
MaxAppended == 4
\* the same, for the runs of the long conversation (SpecMemory)
MaxAppendedLong == 26
\* the same, for the overlapping calls (SpecOverlap)
MaxAppendedOverlap == 22

(***************************************************************************)
(* Program constants                                                       *)
(***************************************************************************)
\* chatHistory is cut back to its last 20 messages
HistoryWindow == 20

\* the names detectRequiredTools pushes, in the order of its if-blocks
ToolOrder ==
    << "get_weather", "get_country_info", "convert_currency", "search_flights",
       "search_hotels", "search_places", "analyze_user_context" >>

\* the names of the tools exported in the travelTools array, in array order
travelTools ==
    << "get_weather", "get_country_info", "analyze_user_context",
       "get_currency_exchange", "search_hotels", "search_flights" >>

\* tool names that occur in the text of REACT_COT_PROMPT (prompts/system.js)
REACT_COT_PROMPT_names ==
    { "get_weather", "get_country_info", "convert_currency", "search_flights",
      "search_hotels", "analyze_user_context" }

\* tool names that occur in the text of STRICT_PROMPT (prompts/system.js)
STRICT_PROMPT_names == {}

Range(s) == { s[i] : i \in 1..Len(s) }

(***************************************************************************)
(* JavaScript values.  A string that holds JSON text is Str(v), where v is *)
(* the value the text encodes; JSON.stringify wraps, JSON.parse unwraps    *)
(* one level.  The tool executors return JSON.stringify of an object.      *)
(***************************************************************************)
NoMatch == [type |-> "null"]
Obj(success, location, converted, bookingLinks) ==
    [type |-> "object", success |-> success, location |-> location,
     converted |-> converted, bookingLinks |-> bookingLinks]
Str(v) == [type |-> "string", body |-> v]

JSONstringify(v) == Str(v)
JSONparse(text) == text.body

\* truthiness of  data.success, data.location, data.converted
HasSuccess(data) == data.type = "object" /\ data.success
HasLocation(data) == data.type = "object" /\ data.location
HasConverted(data) == data.type = "object" /\ data.converted
HasBookingLinks(data) == data.type = "object" /\ data.bookingLinks

(***************************************************************************)
(* Messages of the prompt and of the history.                              *)
(*   type     : what _getType() returns                                    *)
(*   kind     : which statement of the code built the message              *)
(*   names    : the tool names its content includes                        *)
(*   seq      : for a stored turn, its position in the order of appends    *)
(*   returned : what /returned:\n([\s\S]+)/ captures in its content        *)
(***************************************************************************)
Msg(type, kind, names, seq, returned) ==
    [type |-> type, kind |-> kind, names |-> names, seq |-> seq,
     returned |-> returned]

PromptMessage == Msg("system", "prompt", REACT_COT_PROMPT_names, 0, NoMatch)
UserMessage == Msg("human", "user", {}, 0, NoMatch)
HumanTurn(n) == Msg("human", "turn", {}, n, NoMatch)
AITurn(n) == Msg("ai", "turn", {}, n, NoMatch)
\* a stored turn together with its content
Said(turn, text) == turn @@ [text |-> text]
ResultNotice(name, toolResult) ==
    Msg("system", "result", {name}, 0, JSONstringify(toolResult))
FailedNotice(name) == Msg("system", "failed", {name}, 0, NoMatch)
StrictNotice(used) ==
    Msg("system", "strict",
        STRICT_PROMPT_names \cup { used[i].tool : i \in 1..Len(used) }, 0, NoMatch)
CorrectionNotice(domain) == Msg("system", domain, {}, 0, NoMatch)

(***************************************************************************)
(* The environment's inputs                                                *)
(***************************************************************************)
ToolNames == Range(ToolOrder)

\* A user message: whether the argument is a string at all, and the tool
\* categories for which it has a keyword hit and a resolvable entity.
Messages ==
    { [isString |-> TRUE, hits |-> h] :
        h \in { s \in SUBSET ToolNames : Cardinality(s) <= MaxTools } }
    \cup { [isString |-> FALSE, hits |-> {}] }

NoMessage == [isString |-> FALSE, hits |-> {}]

\* the messages of the long conversation: small talk and a weather question
PlainMessages ==
    { [isString |-> TRUE, hits |-> {}], [isString |-> TRUE, hits |-> {"get_weather"}] }

\* What an executor of tools.js can resolve with: JSON text of a success
\* payload or of a {success: false, error, suggestion} payload.
ToolResults(name) ==
    { JSONstringify(Obj(TRUE, name = "get_weather", FALSE, name = "search_flights")),
      JSONstringify(Obj(FALSE, FALSE, FALSE, FALSE)) }

\* A draft answer of the LLM, by what the validation tests on its content:
\*   empty  : content is ""
\*   loc    : content includes the weather location
\*   sig    : content matches one of the flight hallucination patterns
\*   amt    : content includes the converted amount
\*   marker : content matches the follow-up pattern (I should check, ...)
\*   hits   : the tools detectRequiredTools finds when run on the content
Draft(empty, loc, sig, amt, marker, hits) ==
    [empty |-> empty, loc |-> loc, sig |-> sig, amt |-> amt,
     marker |-> marker, hits |-> hits]

NoDraft == [empty |-> TRUE, loc |-> FALSE, sig |-> FALSE, amt |-> FALSE,
            marker |-> FALSE, hits |-> {"none"}]

Drafts ==
    { Draft(FALSE, l, s, a, FALSE, {}) : l \in BOOLEAN, s \in BOOLEAN, a \in BOOLEAN }
    \cup { Draft(TRUE, FALSE, FALSE, FALSE, FALSE, {}) }

\* the fixed sentence that stands in for an empty draft
FallbackAnswer == [fixed |-> "I apologize, but I'm having trouble formulating a response."]
\* the fixed sentence of the error result
Apology == "I encountered an issue processing your request."

NoResult == [status |-> "none"]
Success(content, steps, used) ==
    [status |-> "returned", success |-> TRUE, content |-> content,
     steps |-> steps, toolsUsed |-> used]
Failure(details) ==
    [status |-> "returned", success |-> FALSE, error |-> Apology,
     details |-> details]

(***************************************************************************)
(* State                                                                   *)
(***************************************************************************)
VARIABLES
    chatHistory,     \* this.chatHistory
    initialized,     \* this.initialized
    appended,        \* how many messages were ever pushed to chatHistory
    pc,              \* "idle", or the await the run is suspended at
    stage,           \* which tool loop or which LLM invocation is awaited
    userMessage,     \* the argument of the run
    requiredTools,   \* const requiredTools
    additionalTools, \* const additionalTools of the follow-up loop
    toolIdx,         \* position of the for-of loop over the tool list
    toolsUsed,       \* const toolsUsed
    messages,        \* const messages
    response,        \* let response
    firstDraft,      \* what the first llm.invoke of the run resolved with
    reasoningSteps,  \* let reasoningSteps
    iterations,      \* let iterations of the follow-up loop
    llmCalls,        \* how often the run has invoked the LLM
    result,          \* what the last processMessage call resolved with
    other,           \* the locals of a second processMessage call, while the
                     \* event loop runs the first one (and the other way round)
    cache,           \* currencyService.cache
    now,             \* Date.now()
    fetches,         \* how often the exchange-rate provider was queried
    rateCall         \* the getExchangeRate call: its arguments, the await it
                     \* is suspended at, what it resolved with

\* the locals of a processMessage call, from pc to result
locals ==
    [pc |-> pc, stage |-> stage, userMessage |-> userMessage,
     requiredTools |-> requiredTools, additionalTools |-> additionalTools,
     toolIdx |-> toolIdx, toolsUsed |-> toolsUsed, messages |-> messages,
     response |-> response, firstDraft |-> firstDraft,
     reasoningSteps |-> reasoningSteps, iterations |-> iterations,
     llmCalls |-> llmCalls, result |-> result]

\* what a step of the processMessage call at hand leaves alone
outside == << other, cache, now, fetches, rateCall >>

vars ==
    << chatHistory, initialized, appended, pc, stage, userMessage,
       requiredTools, additionalTools, toolIdx, toolsUsed, messages, response,
       firstDraft, reasoningSteps, iterations, llmCalls, result, other,
       cache, now, fetches, rateCall >>

\* the locals of a call that was not made yet
NoCall ==
    [pc |-> "idle", stage |-> "none", userMessage |-> NoMessage,
     requiredTools |-> << >>, additionalTools |-> << >>, toolIdx |-> 0,
     toolsUsed |-> << >>, messages |-> << >>, response |-> NoDraft,
     firstDraft |-> NoDraft, reasoningSteps |-> 0, iterations |-> 0,
     llmCalls |-> 0, result |-> NoResult]

\* no getExchangeRate call was made yet
NoRateCall == [pc |-> "idle", n |-> 0, from |-> "", to |-> "", result |-> NoResult]

\* constructor
Init ==
    /\ chatHistory = << >>
    /\ initialized = FALSE
    /\ appended = 0
    /\ pc = "idle"
    /\ stage = "none"
    /\ userMessage = NoMessage
    /\ requiredTools = << >>
    /\ additionalTools = << >>
    /\ toolIdx = 0
    /\ toolsUsed = << >>
    /\ messages = << >>
    /\ response = NoDraft
    /\ firstDraft = NoDraft
    /\ reasoningSteps = 0
    /\ iterations = 0
    /\ llmCalls = 0
    /\ result = NoResult
    /\ other = NoCall
    /\ cache = << >>
    /\ now = 0
    /\ fetches = 0
    /\ rateCall = NoRateCall

(***************************************************************************)
(* Pure helpers of processMessage                                          *)
(***************************************************************************)
RECURSIVE FilterSeq(_, _)
FilterSeq(s, keep) ==
    IF s = << >> THEN << >>
    ELSE IF Head(s) \in keep THEN << Head(s) >> \o FilterSeq(Tail(s), keep)
         ELSE FilterSeq(Tail(s), keep)

\* detectRequiredTools: one if-block per category, in ToolOrder; a block
\* pushes {name, args} when its keywords hit and its entity resolves.
detectRequiredTools(msg) == FilterSeq(ToolOrder, msg.hits)

\* travelTools.find(t => t.name === name) found a tool
Registered(name) == name \in Range(travelTools)

\* a loop that leaves after its first awaited tool
NextAwaitedFirstOnly(list, i) ==
    LET S == { j \in i..Len(list) : Registered(list[j]) }
    IN  IF S = {} \/ i > 1 THEN Len(list) + 1
        ELSE CHOOSE j \in S : \A k \in S : j <= k

\* the next entry of the tool list, from position i on, that the for-of
\* loop awaits: entries whose name is not registered fall through if (tool)
NextAwaited(list, i) ==
    LET S == { j \in i..Len(list) : Registered(list[j]) }
    IN  IF S = {} THEN Len(list) + 1
        ELSE CHOOSE j \in S : \A k \in S : j <= k

\* a cut to the last 19 messages
TruncateToOdd(h) ==
    IF Len(h) > HistoryWindow
    THEN SubSeq(h, Len(h) - HistoryWindow + 2, Len(h))
    ELSE h

\* a cut that keeps the first 20 messages instead of the last 20
TruncateKeepsOldest(h) ==
    IF Len(h) > HistoryWindow THEN SubSeq(h, 1, HistoryWindow) ELSE h

\* chatHistory after the two pushes and the cut to the last 20
Truncate(h) ==
    IF Len(h) > HistoryWindow
    THEN SubSeq(h, Len(h) - HistoryWindow + 1, Len(h))
    ELSE h

\* a message of the prompt that is a stored turn
IsTurn(m) == m.kind = "turn"

\* a message of the prompt that is no stored turn
IsNoTurn(m) == m.kind # "turn"

\* toolsUsed.find(t => t.tool === name) found an entry
Used(used, name) == \E i \in 1..Len(used) : used[i].tool = name

\* messages.find(m => m._getType() === 'system' && m.content.includes(name)):
\* the index of the first such message, 0 when there is none
FindSystemMessage(msgs, name) ==
    LET S == { i \in 1..Len(msgs) :
                 msgs[i].type = "system" /\ name \in msgs[i].names }
    IN  IF S = {} THEN 0 ELSE CHOOSE i \in S : \A k \in S : i <= k

\* the value JSON.parse yields for what follows "returned:\n" in the first
\* system message that includes the tool's name; NoMatch when there is no
\* such message or the pattern does not match it
ParsedToolData(msgs, name) ==
    LET i == FindSystemMessage(msgs, name)
    IN  IF i = 0 THEN NoMatch
        ELSE IF msgs[i].returned = NoMatch THEN NoMatch
        ELSE JSONparse(msgs[i].returned)

\* the weather block pushes its instruction and invokes the LLM again
WeatherViolation(msgs, used, draft) ==
    /\ Used(used, "get_weather")
    /\ LET weatherData == ParsedToolData(msgs, "get_weather")
       IN  /\ weatherData # NoMatch
           /\ HasSuccess(weatherData)
           /\ HasLocation(weatherData)
           /\ ~draft.loc

\* the flight block: building the instruction calls bookingLinks.map, which
\* throws into the block's own catch when bookingLinks is not an array
FlightViolation(msgs, used, draft) ==
    /\ Used(used, "search_flights")
    /\ LET flightData == ParsedToolData(msgs, "search_flights")
       IN  /\ flightData # NoMatch
           /\ draft.sig
           /\ ~HasBookingLinks(flightData)

\* the currency block
CurrencyViolation(msgs, used, draft) ==
    /\ Used(used, "convert_currency")
    /\ LET currencyData == ParsedToolData(msgs, "convert_currency")
       IN  /\ currencyData # NoMatch
           /\ HasSuccess(currencyData)
           /\ HasConverted(currencyData)
           /\ ~draft.amt

\* The validation blocks run in the order weather, flights, currency; the
\* first one that finds a violation pushes its instruction and awaits the
\* LLM.  Each operator yields the prompt and the invocation awaited next
\* ("none": the run goes on to its final step).
CurrencyBlock(msgs, used, draft) ==
    IF CurrencyViolation(msgs, used, draft)
    THEN [messages |-> Append(msgs, CorrectionNotice("currency")), retry |-> "currency"]
    ELSE [messages |-> msgs, retry |-> "none"]

FlightBlock(msgs, used, draft) ==
    IF FlightViolation(msgs, used, draft)
    THEN [messages |-> Append(msgs, CorrectionNotice("flight")), retry |-> "flight"]
    ELSE CurrencyBlock(msgs, used, draft)

WeatherBlock(msgs, used, draft) ==
    IF WeatherViolation(msgs, used, draft)
    THEN [messages |-> Append(msgs, CorrectionNotice("weather")), retry |-> "weather"]
    ELSE FlightBlock(msgs, used, draft)

\* what follows the resolution of the LLM invocation of the given stage
Validate(stg, msgs, used, draft) ==
    IF Len(used) = 0 THEN [messages |-> msgs, retry |-> "none"]
    ELSE IF stg = "synth" THEN WeatherBlock(Append(msgs, StrictNotice(used)), used, draft)
    ELSE IF stg = "weather" THEN FlightBlock(msgs, used, draft)
    ELSE IF stg = "flight" THEN CurrencyBlock(msgs, used, draft)
    ELSE [messages |-> msgs, retry |-> "none"]

\* the content of the response as it is, empty or not
FinalAnswerRaw(draft) == draft

\* response.content || "I apologize, ..."
FinalAnswer(draft) == IF draft.empty THEN FallbackAnswer ELSE draft

(***************************************************************************)
(* processMessage (ReAct agent): the segments between its awaits           *)
(***************************************************************************)

\* a catch block that also stores the failed turn
CatchStoresTurn(details) ==
    /\ result' = Failure(details)
    /\ pc' = "idle"
    /\ stage' = "none"
    /\ chatHistory' = Append(chatHistory, HumanTurn(appended + 1))
    /\ appended' = appended + 1
    /\ UNCHANGED << requiredTools, additionalTools, toolIdx, toolsUsed, messages,
                    response, firstDraft, reasoningSteps, iterations, llmCalls >>

\* the catch block of processMessage: the run resolves with the error result
Catch(details) ==
    /\ result' = Failure(details)
    /\ pc' = "idle"
    /\ stage' = "none"
    /\ UNCHANGED << chatHistory, appended, requiredTools, additionalTools,
                    toolIdx, toolsUsed, messages, response, firstDraft,
                    reasoningSteps, iterations, llmCalls >>

\* a loop that, past the end of the list, puts the user message right after
\* the system instruction
ContinueToolsUserSecond(list, i, msgs, steps) ==
    LET j == NextAwaited(list, i)
    IN  IF j <= Len(list)
        THEN /\ pc' = "tool"
             /\ stage' = "required"
             /\ toolIdx' = j
             /\ messages' = msgs
             /\ reasoningSteps' = steps
        ELSE /\ pc' = "llm"
             /\ stage' = "synth"
             /\ toolIdx' = j
             /\ messages' = << Head(msgs), UserMessage >> \o Tail(msgs)
             /\ reasoningSteps' = steps + 1

\* the for-of loop over requiredTools goes on at position i with the prompt
\* msgs: it awaits the next registered tool, or, past the end of the list,
\* the user message is pushed and the first llm.invoke is awaited
ContinueTools(list, i, msgs, steps) ==
    LET j == NextAwaited(list, i)
    IN  IF j <= Len(list)
        THEN /\ pc' = "tool"
             /\ stage' = "required"
             /\ toolIdx' = j
             /\ messages' = msgs
             /\ reasoningSteps' = steps
        ELSE /\ pc' = "llm"
             /\ stage' = "synth"
             /\ toolIdx' = j
             /\ messages' = Append(msgs, UserMessage)
             /\ reasoningSteps' = steps + 1

\* from identifyQueryType to the first await of the run
Begin(msg) ==
    IF ~msg.isString
    THEN /\ userMessage' = msg
         /\ result' = Failure("TypeError")
         /\ pc' = "idle"
         /\ stage' = "none"
         /\ requiredTools' = << >>
         /\ additionalTools' = << >>
         /\ toolIdx' = 0
         /\ toolsUsed' = << >>
         /\ messages' = << >>
         /\ response' = NoDraft
         /\ firstDraft' = NoDraft
         /\ reasoningSteps' = 0
         /\ iterations' = 0
         /\ llmCalls' = 0
         /\ UNCHANGED << chatHistory, appended >>
    ELSE LET tools == detectRequiredTools(msg)
         IN  /\ userMessage' = msg
             /\ requiredTools' = tools
             /\ additionalTools' = << >>
             /\ toolsUsed' = << >>
             /\ response' = NoDraft
             /\ firstDraft' = NoDraft
             /\ iterations' = 0
             /\ llmCalls' = 0
             /\ ContinueTools(tools, 1, << PromptMessage >> \o chatHistory,
                              IF Len(tools) > 0 THEN 1 ELSE 0)
             /\ result' = NoResult
             /\ UNCHANGED << chatHistory, appended >>

\* processMessage is called on an agent that is not initialized yet: it
\* awaits initialize
CallUninitialized(inputs, limit) ==
    /\ pc = "idle"
    /\ ~initialized
    /\ appended < limit
    /\ \E msg \in inputs :
        /\ userMessage' = msg
        /\ pc' = "init"
        /\ stage' = "none"
        /\ result' = NoResult
        /\ UNCHANGED << chatHistory, initialized, appended, requiredTools,
                        additionalTools, toolIdx, toolsUsed, messages, response,
                        firstDraft, reasoningSteps, iterations, llmCalls >>
    /\ UNCHANGED outside

\* processMessage is called on an initialized agent
CallInitialized(inputs, limit) ==
    /\ pc = "idle"
    /\ initialized
    /\ appended < limit
    /\ \E msg \in inputs : Begin(msg)
    /\ UNCHANGED initialized
    /\ UNCHANGED outside

StartRun == CallUninitialized(Messages, MaxAppended)

\* initialize resolves
InitializeReturns ==
    /\ pc = "init"
    /\ initialized' = TRUE
    /\ Begin(userMessage)
    /\ UNCHANGED outside

\* initialize rejects (the ChatOllama constructor throws)
InitializeThrows ==
    /\ pc = "init"
    /\ Catch("InitError")
    /\ UNCHANGED << initialized, userMessage >>
    /\ UNCHANGED outside

StartRunInitialized == CallInitialized(Messages, MaxAppended)

\* tool.func resolves: the entry goes to toolsUsed and its result notice to
\* the prompt
ToolReturns ==
    /\ pc = "tool"
    /\ stage = "required"
    /\ LET name == requiredTools[toolIdx]
       IN  \E toolResult \in ToolResults(name) :
            /\ toolsUsed' = Append(toolsUsed,
                   [tool |-> name, threw |-> FALSE, result |-> JSONparse(toolResult)])
            /\ ContinueTools(requiredTools, toolIdx + 1,
                             Append(messages, ResultNotice(name, toolResult)),
                             reasoningSteps)
    /\ UNCHANGED << chatHistory, initialized, appended, userMessage,
                    requiredTools, additionalTools, response, firstDraft,
                    iterations, llmCalls, result >>
    /\ UNCHANGED outside

\* a tool loop without its inner try: the rejection reaches the outer catch
ToolThrowsAborts ==
    /\ pc = "tool"
    /\ stage = "required"
    /\ Catch("ToolError")
    /\ UNCHANGED << initialized, userMessage >>
    /\ UNCHANGED outside

\* an inner catch that pushes the failed notice and records nothing
ToolThrowsDropped ==
    /\ pc = "tool"
    /\ stage = "required"
    /\ ContinueTools(requiredTools, toolIdx + 1,
                     Append(messages, FailedNotice(requiredTools[toolIdx])),
                     reasoningSteps)
    /\ UNCHANGED << chatHistory, initialized, appended, userMessage,
                    requiredTools, additionalTools, toolsUsed, response,
                    firstDraft, iterations, llmCalls, result >>
    /\ UNCHANGED outside

\* tool.func rejects: the inner catch records the failure and pushes the
\* failed notice
ToolThrows ==
    /\ pc = "tool"
    /\ stage = "required"
    /\ LET name == requiredTools[toolIdx]
       IN  /\ toolsUsed' = Append(toolsUsed,
                   [tool |-> name, threw |-> TRUE,
                    result |-> Obj(FALSE, FALSE, FALSE, FALSE)])
           /\ ContinueTools(requiredTools, toolIdx + 1,
                            Append(messages, FailedNotice(name)), reasoningSteps)
    /\ UNCHANGED << chatHistory, initialized, appended, userMessage,
                    requiredTools, additionalTools, response, firstDraft,
                    iterations, llmCalls, result >>
    /\ UNCHANGED outside

\* the final step: the two turns are pushed, the history is cut, the run
\* resolves with the success result
Finalize(draft, steps, used) ==
    /\ chatHistory' = Truncate(chatHistory \o
                         << HumanTurn(appended + 1), AITurn(appended + 2) >>)
    /\ appended' = appended + 2
    /\ result' = Success(FinalAnswer(draft), steps, used)
    /\ pc' = "idle"
    /\ stage' = "none"

\* a final step that pushes the answer before the question
FinalizeTextAnswerFirst(draft, steps, used) ==
    /\ chatHistory' = Truncate(chatHistory \o
                         << Said(AITurn(appended + 1), FinalAnswer(draft)),
                            Said(HumanTurn(appended + 2), userMessage) >>)
    /\ appended' = appended + 2
    /\ result' = Success(FinalAnswer(draft), steps, used)
    /\ pc' = "idle"
    /\ stage' = "none"

\* a final step that writes the history back from the turns of the prompt
FinalizeTextFromPrompt(draft, steps, used) ==
    /\ chatHistory' = Truncate(SelectSeq(messages, IsTurn) \o
                         << Said(HumanTurn(appended + 1), userMessage),
                            Said(AITurn(appended + 2), FinalAnswer(draft)) >>)
    /\ appended' = appended + 2
    /\ result' = Success(FinalAnswer(draft), steps, used)
    /\ pc' = "idle"
    /\ stage' = "none"

\* the final step, the content of the two pushed messages kept:
\* new HumanMessage(userMessage), new AIMessage(finalAnswer)
FinalizeText(draft, steps, used) ==
    /\ chatHistory' = Truncate(chatHistory \o
                         << Said(HumanTurn(appended + 1), userMessage),
                            Said(AITurn(appended + 2), FinalAnswer(draft)) >>)
    /\ appended' = appended + 2
    /\ result' = Success(FinalAnswer(draft), steps, used)
    /\ pc' = "idle"
    /\ stage' = "none"

\* llm.invoke resolves with a draft: the validation blocks run, and either
\* one of them awaits a corrective invocation or the run finishes.  The
\* stored turns keep their content when keepText is set; the conversations
\* that only count and order the turns leave it out.
LLMResolves(keepText) ==
    /\ pc = "llm"
    /\ \E draft \in Drafts :
        LET steps == IF stage = "synth" THEN reasoningSteps ELSE reasoningSteps + 1
            v == Validate(stage, messages, toolsUsed, draft)
        IN  /\ response' = draft
            /\ firstDraft' = IF stage = "synth" THEN draft ELSE firstDraft
            /\ llmCalls' = llmCalls + 1
            /\ reasoningSteps' = steps
            /\ messages' = v.messages
            /\ IF v.retry = "none"
               THEN IF keepText THEN FinalizeText(draft, steps, toolsUsed)
                    ELSE Finalize(draft, steps, toolsUsed)
               ELSE /\ pc' = "llm"
                    /\ stage' = v.retry
                    /\ UNCHANGED << chatHistory, appended, result >>
    /\ UNCHANGED << initialized, userMessage, requiredTools, additionalTools,
                    toolIdx, toolsUsed, iterations >>
    /\ UNCHANGED outside

LLMReturns == LLMResolves(FALSE)

\* a processMessage without its outer try: the rejection reaches the caller
LLMThrowsUncaught ==
    /\ pc = "llm"
    /\ result' = [status |-> "rejected", details |-> "LLMError"]
    /\ pc' = "idle"
    /\ stage' = "none"
    /\ UNCHANGED << chatHistory, initialized, appended, userMessage,
                    requiredTools, additionalTools, toolIdx, toolsUsed, messages,
                    response, firstDraft, reasoningSteps, iterations, llmCalls >>
    /\ UNCHANGED outside

\* llm.invoke rejects
LLMThrows ==
    /\ pc = "llm"
    /\ Catch("LLMError")
    /\ UNCHANGED << initialized, userMessage >>
    /\ UNCHANGED outside

\* a clearHistory that empties an array the run's prompt shares
ClearHistoryShared ==
    /\ chatHistory' = << >>
    /\ messages' = SelectSeq(messages, IsNoTurn)
    /\ UNCHANGED << initialized, appended, pc, stage, userMessage,
                    requiredTools, additionalTools, toolIdx, toolsUsed, response,
                    firstDraft, reasoningSteps, iterations, llmCalls, result >>
    /\ UNCHANGED outside

\* a clearHistory that keeps the last message
ClearHistoryKeepsLast ==
    /\ chatHistory' = IF chatHistory = << >> THEN << >>
                    ELSE << chatHistory[Len(chatHistory)] >>
    /\ UNCHANGED << initialized, appended, pc, stage, userMessage,
                    requiredTools, additionalTools, toolIdx, toolsUsed, messages,
                    response, firstDraft, reasoningSteps, iterations, llmCalls,
                    result >>
    /\ UNCHANGED outside

\* clearHistory
ClearHistory ==
    /\ chatHistory' = << >>
    /\ UNCHANGED << initialized, appended, pc, stage, userMessage,
                    requiredTools, additionalTools, toolIdx, toolsUsed, messages,
                    response, firstDraft, reasoningSteps, iterations, llmCalls,
                    result >>
    /\ UNCHANGED outside

Next ==
    \/ StartRun
    \/ InitializeReturns
    \/ InitializeThrows
    \/ StartRunInitialized
    \/ ToolReturns
    \/ ToolThrows
    \/ LLMReturns
    \/ LLMThrows
    \/ ClearHistory

Spec == Init /\ [][Next]_vars

(***************************************************************************)
(* A long conversation: the same agent, fed plain messages for as many     *)
(* runs as it takes to fill the history window and push turns out of it.   *)
(***************************************************************************)
LongStartRun == CallUninitialized(PlainMessages, MaxAppendedLong)
LongStartRunInitialized == CallInitialized(PlainMessages, MaxAppendedLong)

NextMemory ==
    \/ LongStartRun
    \/ InitializeReturns
    \/ InitializeThrows
    \/ LongStartRunInitialized
    \/ ToolReturns
    \/ ToolThrows
    \/ LLMReturns
    \/ LLMThrows
    \/ ClearHistory

SpecMemory == Init /\ [][NextMemory]_vars

(***************************************************************************)
(* Two processMessage calls on the same agent that overlap.  The event     *)
(* loop runs one segment of one call at a time: the variables pc to result *)
(* are the locals of the call whose segment runs next, other holds those   *)
(* of the second call.  this.chatHistory and this.initialized are shared.  *)
(***************************************************************************)
\* the event loop turns to the other call
TurnToOtherCall ==
    /\ pc # "idle" \/ other.pc # "idle"
    /\ other' = locals
    /\ pc' = other.pc
    /\ stage' = other.stage
    /\ userMessage' = other.userMessage
    /\ requiredTools' = other.requiredTools
    /\ additionalTools' = other.additionalTools
    /\ toolIdx' = other.toolIdx
    /\ toolsUsed' = other.toolsUsed
    /\ messages' = other.messages
    /\ response' = other.response
    /\ firstDraft' = other.firstDraft
    /\ reasoningSteps' = other.reasoningSteps
    /\ iterations' = other.iterations
    /\ llmCalls' = other.llmCalls
    /\ result' = other.result
    /\ UNCHANGED << chatHistory, initialized, appended, cache, now, fetches,
                    rateCall >>

OverlapStartRun == CallUninitialized(PlainMessages, MaxAppendedOverlap)
OverlapStartRunInitialized == CallInitialized(PlainMessages, MaxAppendedOverlap)

NextOverlap ==
    \/ OverlapStartRun
    \/ InitializeReturns
    \/ InitializeThrows
    \/ OverlapStartRunInitialized
    \/ ToolReturns
    \/ ToolThrows
    \/ LLMReturns
    \/ LLMThrows
    \/ TurnToOtherCall

SpecOverlap == Init /\ [][NextOverlap]_vars

(***************************************************************************)
(* A short conversation in which the stored turns keep their content.      *)
(***************************************************************************)
\* its messages: small talk, a weather question, an argument that is no string
ShortMessages == PlainMessages \cup { NoMessage }

TextStartRun == CallUninitialized(ShortMessages, MaxAppended)
TextStartRunInitialized == CallInitialized(ShortMessages, MaxAppended)
LLMReturnsText == LLMResolves(TRUE)

NextText ==
    \/ TextStartRun
    \/ InitializeReturns
    \/ InitializeThrows
    \/ TextStartRunInitialized
    \/ ToolReturns
    \/ ToolThrows
    \/ LLMReturnsText
    \/ LLMThrows
    \/ ClearHistory

SpecText == Init /\ [][NextText]_vars

(***************************************************************************)
(* The earlier agent of agents/reasoningAgent.js (its first class): the    *)
(* same run with its own prompt texts, a weather block only, and the       *)
(* follow-up loop that lets the draft ask for more tools.                  *)
(***************************************************************************)
\* const maxIterations of the follow-up loop
maxIterations == 3

\* the names its detectRequiredTools pushes, in the order of its if-blocks
ToolOrderV1 == << "get_weather", "get_country_info", "analyze_user_context" >>

\* REACT_COT_PROMPT and STRICT_PROMPT as defined in that file: both texts
\* include "get_weather" and no other tool name
PromptMessageV1 == Msg("system", "prompt", {"get_weather"}, 0, NoMatch)
StrictMessageV1 == Msg("system", "strict", {"get_weather"}, 0, NoMatch)
AdditionalNotice(name, toolResult) ==
    Msg("system", "additional", {name}, 0, JSONstringify(toolResult))

MessagesV1 ==
    { [isString |-> TRUE, hits |-> h] :
        h \in { s \in SUBSET Range(ToolOrderV1) : Cardinality(s) <= MaxTools } }
    \cup { [isString |-> FALSE, hits |-> {}] }

\* what a draft with the follow-up marker makes detectRequiredTools find
FollowUpHits == { {}, {"get_weather"} }

\* the first draft of a run: the weather block tests it for the location
FirstDraftsV1 ==
    { Draft(FALSE, l, FALSE, FALSE, FALSE, {}) : l \in BOOLEAN }
    \cup { Draft(FALSE, l, FALSE, FALSE, TRUE, h) : l \in BOOLEAN, h \in FollowUpHits }
    \cup { Draft(TRUE, FALSE, FALSE, FALSE, FALSE, {}) }

\* the later drafts: only the follow-up loop tests them
LaterDraftsV1 ==
    { Draft(FALSE, FALSE, FALSE, FALSE, FALSE, {}) }
    \cup { Draft(FALSE, FALSE, FALSE, FALSE, TRUE, h) : h \in FollowUpHits }
    \cup { Draft(TRUE, FALSE, FALSE, FALSE, FALSE, {}) }

detectRequiredToolsV1(text) == FilterSeq(ToolOrderV1, text.hits)

\* the for-of loop over the required or the additional tools goes on
ContinueToolsV1(list, i, msgs, steps, loop) ==
    LET j == NextAwaited(list, i)
    IN  IF j <= Len(list)
        THEN /\ pc' = "tool"
             /\ stage' = loop
             /\ toolIdx' = j
             /\ messages' = msgs
             /\ reasoningSteps' = steps
        ELSE /\ pc' = "llm"
             /\ stage' = IF loop = "required" THEN "synth" ELSE "followup"
             /\ toolIdx' = j
             /\ messages' = IF loop = "required" THEN Append(msgs, UserMessage) ELSE msgs
             /\ reasoningSteps' = steps + 1

BeginV1(msg) ==
    IF ~msg.isString
    THEN /\ userMessage' = msg
         /\ result' = Failure("TypeError")
         /\ pc' = "idle"
         /\ stage' = "none"
         /\ requiredTools' = << >>
         /\ additionalTools' = << >>
         /\ toolIdx' = 0
         /\ toolsUsed' = << >>
         /\ messages' = << >>
         /\ response' = NoDraft
         /\ firstDraft' = NoDraft
         /\ reasoningSteps' = 0
         /\ iterations' = 0
         /\ llmCalls' = 0
         /\ UNCHANGED << chatHistory, appended >>
    ELSE LET tools == detectRequiredToolsV1(msg)
         IN  /\ userMessage' = msg
             /\ requiredTools' = tools
             /\ additionalTools' = << >>
             /\ toolsUsed' = << >>
             /\ response' = NoDraft
             /\ firstDraft' = NoDraft
             /\ iterations' = 0
             /\ llmCalls' = 0
             /\ ContinueToolsV1(tools, 1, << PromptMessageV1 >> \o chatHistory,
                                IF Len(tools) > 0 THEN 1 ELSE 0, "required")
             /\ result' = NoResult
             /\ UNCHANGED << chatHistory, appended >>

V1StartRun == CallUninitialized(MessagesV1, MaxAppended)

V1InitializeReturns ==
    /\ pc = "init"
    /\ initialized' = TRUE
    /\ BeginV1(userMessage)
    /\ UNCHANGED outside

V1StartRunInitialized ==
    /\ pc = "idle"
    /\ initialized
    /\ appended < MaxAppended
    /\ \E msg \in MessagesV1 : BeginV1(msg)
    /\ UNCHANGED initialized
    /\ UNCHANGED outside

\* the tool list the loop at hand iterates
ToolList == IF stage = "required" THEN requiredTools ELSE additionalTools

\* tool.func resolves, in the first loop or in the follow-up loop
V1ToolReturns ==
    /\ pc = "tool"
    /\ LET name == ToolList[toolIdx]
       IN  \E toolResult \in ToolResults(name) :
            /\ toolsUsed' = Append(toolsUsed,
                   [tool |-> name, threw |-> FALSE, result |-> NoMatch])
            /\ ContinueToolsV1(ToolList, toolIdx + 1,
                   Append(messages,
                          IF stage = "required" THEN ResultNotice(name, toolResult)
                          ELSE AdditionalNotice(name, toolResult)),
                   reasoningSteps, stage)
    /\ UNCHANGED << chatHistory, initialized, appended, userMessage,
                    requiredTools, additionalTools, response, firstDraft,
                    iterations, llmCalls, result >>
    /\ UNCHANGED outside

\* tool.func rejects: only the failed notice is pushed
V1ToolThrows ==
    /\ pc = "tool"
    /\ LET name == ToolList[toolIdx]
       IN  ContinueToolsV1(ToolList, toolIdx + 1,
                           Append(messages, FailedNotice(name)), reasoningSteps, stage)
    /\ UNCHANGED << chatHistory, initialized, appended, userMessage,
                    requiredTools, additionalTools, toolsUsed, response,
                    firstDraft, iterations, llmCalls, result >>
    /\ UNCHANGED outside

\* a loop condition without the iteration count
FollowUpWantedUnbounded(draft, iter) ==
    /\ draft.marker
    /\ detectRequiredToolsV1(draft) # << >>

\* a loop condition that lets one iteration too many through
FollowUpWantedOffByOne(draft, iter) ==
    /\ iter <= maxIterations
    /\ draft.marker
    /\ detectRequiredToolsV1(draft) # << >>

\* the follow-up loop runs another iteration: it has not used up its
\* iterations, the draft has the marker and names a tool
FollowUpWanted(draft, iter) ==
    /\ iter < maxIterations
    /\ draft.marker
    /\ detectRequiredToolsV1(draft) # << >>

\* the head of the follow-up loop, reached with the draft at hand
FollowUp(msgs, draft, iter, steps) ==
    IF FollowUpWanted(draft, iter)
    THEN /\ additionalTools' = detectRequiredToolsV1(draft)
         /\ ContinueToolsV1(detectRequiredToolsV1(draft), 1, msgs, steps + 1,
                            "additional")
         /\ UNCHANGED << chatHistory, appended, result >>
    ELSE /\ Finalize(draft, steps, toolsUsed)
         /\ messages' = msgs
         /\ reasoningSteps' = steps
         /\ UNCHANGED << additionalTools, toolIdx >>

\* llm.invoke resolves with a draft
V1LLMReturns ==
    /\ pc = "llm"
    /\ \E draft \in IF stage = "synth" THEN FirstDraftsV1 ELSE LaterDraftsV1 :
        /\ response' = draft
        /\ firstDraft' = IF stage = "synth" THEN draft ELSE firstDraft
        /\ llmCalls' = llmCalls + 1
        /\ iterations' = IF stage = "followup" THEN iterations + 1 ELSE iterations
        /\ IF stage = "synth" /\ Len(toolsUsed) > 0
                /\ WeatherViolation(messages, toolsUsed, draft)
           THEN /\ messages' = Append([messages EXCEPT ![1] = StrictMessageV1],
                                      CorrectionNotice("weather"))
                /\ pc' = "llm"
                /\ stage' = "weather"
                /\ UNCHANGED << chatHistory, appended, result, additionalTools,
                                toolIdx, reasoningSteps >>
           ELSE FollowUp(messages, draft,
                         IF stage = "followup" THEN iterations + 1 ELSE iterations,
                         IF stage = "weather" THEN reasoningSteps + 1 ELSE reasoningSteps)
    /\ UNCHANGED << initialized, userMessage, requiredTools, toolsUsed >>
    /\ UNCHANGED outside

NextV1 ==
    \/ V1StartRun
    \/ V1InitializeReturns
    \/ InitializeThrows
    \/ V1StartRunInitialized
    \/ V1ToolReturns
    \/ V1ToolThrows
    \/ V1LLMReturns
    \/ LLMThrows
    \/ ClearHistory

SpecV1 == Init /\ [][NextV1]_vars

(***************************************************************************)
(* The runs under the assumption that every awaited call settles: a        *)
(* pending initialize, tool.func or llm.invoke eventually resolves (the    *)
(* event loop runs the continuation of a settled promise).                 *)
(***************************************************************************)
SpecLive ==
    /\ Spec
    /\ WF_vars(InitializeReturns)
    /\ WF_vars(ToolReturns)
    /\ WF_vars(LLMReturns)

SpecV1Live ==
    /\ SpecV1
    /\ WF_vars(V1InitializeReturns)
    /\ WF_vars(V1ToolReturns)
    /\ WF_vars(V1LLMReturns)

(***************************************************************************)
(* The history-aware extraction of detectRequiredTools.  The text of a     *)
(* stored turn is modelled by what the three families of patterns capture  *)
(* in it ("none": no pattern matches):                                     *)
(*   loc    : the destinationPatterns of extractLocationFromContext        *)
(*   dest   : the patterns of extractFlightDestinationFromContext          *)
(*   origin : the patterns of extractFlightOriginFromContext               *)
(***************************************************************************)
\* most exchanges (a Human turn and its Assistant turn) of a conversation
MaxExchanges == 6
\* most turns of a conversation whose text names a place
MaxMentions == 2
\* the same, for the conversations of the classification runs (SpecDetect)
MaxExchangesShort == 1

\* this.chatHistory.slice(-6) of extractLocationFromContext
LocationWindow == 6
\* this.chatHistory.slice(-10) of the two flight extractors
FlightWindow == 10

\* what an extractor returns when it finds nothing (null)
NoLocation == "none"
\* the origin extractFlightCities falls back to
DefaultOrigin == "Tel Aviv"

Text(loc, dest, origin) == [loc |-> loc, dest |-> dest, origin |-> origin]

\* "thanks!", "I'm flying to Lisbon", "we travel from berlin to italy"
HumanTexts ==
    { Text("none", "none", "none"), Text("Lisbon", "Lisbon", "none"),
      Text("italy", "italy", "berlin") }
\* "Sure.", "Paris is lovely; you could travel from Madrid to Paris"
AITexts == { Text("none", "none", "none"), Text("Paris", "Paris", "Madrid") }

\* String.prototype.toLowerCase on the words of the model
toLowerCase(word) ==
    CASE word = "Lisbon" -> "lisbon"
      [] word = "Paris" -> "paris"
      [] word = "Madrid" -> "madrid"
      [] word = "Athens" -> "athens"
      [] word = "Vienna" -> "vienna"
      [] OTHER -> word

\* word.charAt(0).toUpperCase() + word.slice(1).toLowerCase()
Capitalize(word) ==
    CASE word = "italy" -> "Italy"
      [] word = "berlin" -> "Berlin"
      [] word = "lisbon" -> "Lisbon"
      [] OTHER -> word

\* const cityMap of normalizeLocationForFlights (the entries the words of
\* the model can hit)
cityMap == [portugal |-> "Lisbon", italy |-> "Rome", spain |-> "Madrid",
            france |-> "Paris"]

normalizeLocationForFlights(location) ==
    IF toLowerCase(location) \in DOMAIN cityMap
    THEN cityMap[toLowerCase(location)]
    ELSE Capitalize(location)

\* array.slice(-n)
SliceLast(h, n) == IF Len(h) > n THEN SubSeq(h, Len(h) - n + 1, Len(h)) ELSE h

\* for (const msg of recentMessages): the index of the first message, from
\* the front of the window, that is no Assistant turn and in which a pattern
\* of the family matches; 0 when the loop runs to its end
FirstMatch(recentMessages, family) ==
    LET S == { i \in 1..Len(recentMessages) :
                 /\ recentMessages[i].type # "ai"
                 /\ recentMessages[i].text[family] # "none" }
    IN  IF S = {} THEN 0 ELSE CHOOSE i \in S : \A k \in S : i <= k

\* an extractor that goes through the whole history
extractLocationFromContextWholeHistory(history) ==
    LET i == FirstMatch(history, "loc")
    IN  IF i = 0 THEN NoLocation ELSE Capitalize(history[i].text.loc)

\* an extractor whose loop does not skip the Assistant turns
extractLocationFromContextAnyTurn(history) ==
    LET recentMessages == SliceLast(history, LocationWindow)
        S == { i \in 1..Len(recentMessages) : recentMessages[i].text.loc # "none" }
    IN  IF S = {} THEN NoLocation
        ELSE Capitalize(recentMessages[CHOOSE i \in S : \A k \in S : i <= k].text.loc)

extractLocationFromContext(history) ==
    LET recentMessages == SliceLast(history, LocationWindow)
        i == FirstMatch(recentMessages, "loc")
    IN  IF i = 0 THEN NoLocation ELSE Capitalize(recentMessages[i].text.loc)

extractFlightDestinationFromContext(history) ==
    LET recentMessages == SliceLast(history, FlightWindow)
        i == FirstMatch(recentMessages, "dest")
    IN  IF i = 0 THEN NoLocation
        ELSE normalizeLocationForFlights(recentMessages[i].text.dest)

extractFlightOriginFromContext(history) ==
    LET recentMessages == SliceLast(history, FlightWindow)
        i == FirstMatch(recentMessages, "origin")
    IN  IF i = 0 THEN NoLocation
        ELSE normalizeLocationForFlights(recentMessages[i].text.origin)

(***************************************************************************)
(* detectRequiredTools, block by block.  A user message is modelled by     *)
(* what the blocks test on it:                                             *)
(*   kw         : the tools whose keyword list has a hit in the message    *)
(*   place      : what the location patterns of the blocks capture in it:  *)
(*                "none" (no match, or an excluded word), "" (a match that *)
(*                the block's filter and final test reject), or a place    *)
(*   flight     : which pattern of extractFlightCities matches it          *)
(*   amount     : it contains a digit (hasNumber, amountMatch)             *)
(*   currencies : the codes currencyMap finds in it                        *)
(*   ctx        : the contextKeywords it includes                          *)
(***************************************************************************)
Query(kw, place, flight, amount, currencies, ctx) ==
    [isString |-> TRUE, kw |-> kw, place |-> place, flight |-> flight,
     amount |-> amount, currencies |-> currencies, ctx |-> ctx]

\* const contextKeywords
contextKeywords == { "budget", "family", "kids", "children", "week", "days" }

\* the tools whose block extracts an entity
EntityTools ==
    { "get_weather", "get_country_info", "convert_currency", "search_flights",
      "search_hotels", "search_places" }

\* "from Vienna to Athens", "fly to Athens"
MessageOrigin == "Vienna"
MessageDestination == "Athens"

ToolCall(name, args) == [name |-> name, args |-> args]

\* a weather block without its final test of the cleaned location
WeatherTriggerUnvalidated(q) ==
    IF "get_weather" \in q.kw /\ q.place # "none"
    THEN << ToolCall("get_weather", [location |-> Capitalize(q.place)]) >>
    ELSE << >>

\* Weather tool triggers
WeatherTrigger(q) ==
    IF "get_weather" \in q.kw /\ q.place # "none" /\ Capitalize(q.place) # ""
    THEN << ToolCall("get_weather", [location |-> Capitalize(q.place)]) >>
    ELSE << >>

\* Country tool triggers
CountryTrigger(q) ==
    IF "get_country_info" \in q.kw /\ q.place # "none" /\ Capitalize(q.place) # ""
    THEN << ToolCall("get_country_info", [country |-> Capitalize(q.place)]) >>
    ELSE << >>

\* extractCurrencyConversion: the codes are found in the order of the keys
\* of currencyMap (EUR before USD); one code alone is converted to EUR, or
\* to USD when it is EUR; NoMatch stands for null
extractCurrencyConversion(q) ==
    IF ~q.amount THEN NoMatch
    ELSE IF q.currencies = { "EUR", "USD" }
         THEN [type |-> "details", fromCurrency |-> "EUR", toCurrency |-> "USD"]
    ELSE IF q.currencies = { "EUR" }
         THEN [type |-> "details", fromCurrency |-> "EUR", toCurrency |-> "USD"]
    ELSE IF q.currencies = { "USD" }
         THEN [type |-> "details", fromCurrency |-> "USD", toCurrency |-> "EUR"]
    ELSE NoMatch

\* Currency tool triggers ('budget' is a currency keyword as well)
CurrencyTrigger(q) ==
    IF /\ "convert_currency" \in q.kw \/ "budget" \in q.ctx
       /\ q.amount
       /\ extractCurrencyConversion(q) # NoMatch
    THEN << ToolCall("convert_currency", extractCurrencyConversion(q)) >>
    ELSE << >>

\* extractFlightCities; NoMatch stands for null
extractFlightCities(q, history) ==
    IF q.flight = "fromTo"
    THEN [type |-> "cities",
          origin |-> normalizeLocationForFlights(MessageOrigin),
          destination |-> normalizeLocationForFlights(MessageDestination)]
    ELSE IF q.flight = "toOnly"
    THEN [type |-> "cities",
          origin |-> IF extractFlightOriginFromContext(history) # NoLocation
                     THEN extractFlightOriginFromContext(history)
                     ELSE DefaultOrigin,
          destination |-> normalizeLocationForFlights(MessageDestination)]
    ELSE IF /\ extractFlightDestinationFromContext(history) # NoLocation
            /\ extractFlightOriginFromContext(history) # NoLocation
    THEN [type |-> "cities",
          origin |-> extractFlightOriginFromContext(history),
          destination |-> extractFlightDestinationFromContext(history)]
    ELSE NoMatch

\* Flight tool triggers
FlightTrigger(q, history) ==
    IF "search_flights" \in q.kw /\ extractFlightCities(q, history) # NoMatch
    THEN << ToolCall("search_flights",
                     [origin |-> extractFlightCities(q, history).origin,
                      destination |-> extractFlightCities(q, history).destination]) >>
    ELSE << >>

\* the hotel and the places block: the location of the message, or, when
\* the message has none, the location of the conversation
CityCall(name, q, history) ==
    IF q.place = "none"
    THEN IF extractLocationFromContext(history) # NoLocation
         THEN << ToolCall(name, [city |-> extractLocationFromContext(history)]) >>
         ELSE << >>
    ELSE IF Capitalize(q.place) # ""
         THEN << ToolCall(name, [city |-> Capitalize(q.place)]) >>
         ELSE << >>

\* Hotel tool triggers
HotelTrigger(q, history) ==
    IF "search_hotels" \in q.kw THEN CityCall("search_hotels", q, history) ELSE << >>

\* Places tool triggers
PlacesTrigger(q, history) ==
    IF "search_places" \in q.kw THEN CityCall("search_places", q, history) ELSE << >>

\* a context block that is content with one keyword
ContextTriggerAnyKeyword(q) ==
    IF Cardinality(q.ctx \cap contextKeywords) >= 1
    THEN << ToolCall("analyze_user_context", [userMessage |-> q]) >>
    ELSE << >>

\* Context analysis triggers
ContextTrigger(q) ==
    IF Cardinality(q.ctx \cap contextKeywords) >= 2
    THEN << ToolCall("analyze_user_context", [userMessage |-> q]) >>
    ELSE << >>

\* a detection with the hotel block ahead of the flight block
detectRequiredToolsHotelsFirst(q, history) ==
    WeatherTrigger(q) \o CountryTrigger(q) \o CurrencyTrigger(q)
        \o HotelTrigger(q, history) \o FlightTrigger(q, history)
        \o PlacesTrigger(q, history) \o ContextTrigger(q)

\* detectRequiredTools(userMessage), run on the history the agent holds
detectRequiredToolsIn(q, history) ==
    WeatherTrigger(q) \o CountryTrigger(q) \o CurrencyTrigger(q)
        \o FlightTrigger(q, history) \o HotelTrigger(q, history)
        \o PlacesTrigger(q, history) \o ContextTrigger(q)

(***************************************************************************)
(* The classification on its own: conversations whose runs each end in the *)
(* two pushes of the final step, and detectRequiredTools applied to the    *)
(* next user message on the history so far (it runs before the message     *)
(* itself is pushed).                                                      *)
(***************************************************************************)
\* the place a message can name, if any
Places == { "none", "", "Athens" }

KeywordSets == { s \in SUBSET EntityTools : Cardinality(s) <= MaxTools }
\* the context keywords the messages of the model are written with
SampleKeywords == { "budget", "family", "days" }
ContextSets == SUBSET SampleKeywords
FlightForms(kw) ==
    IF "search_flights" \in kw THEN { "fromTo", "toOnly", "none" } ELSE { "none" }
\* the digits and the currency codes of a message
Monies(kw, ctx) ==
    IF "convert_currency" \in kw \/ "budget" \in ctx
    THEN { [amount |-> FALSE, currencies |-> { "USD" }],
           [amount |-> TRUE, currencies |-> {}],
           [amount |-> TRUE, currencies |-> { "USD" }],
           [amount |-> TRUE, currencies |-> { "EUR", "USD" }] }
    ELSE { [amount |-> FALSE, currencies |-> {}] }

Queries ==
    UNION { UNION { { Query(kw, p, f, m.amount, m.currencies, ctx) :
                        p \in Places, f \in FlightForms(kw), m \in Monies(kw, ctx) } :
                    ctx \in ContextSets } :
            kw \in KeywordSets }

\* "any hotel tips?", "any good restaurants?", "find me flights",
\* "flights to Athens"
FollowUps ==
    { Query({ "search_hotels" }, "none", "none", FALSE, {}, {}),
      Query({ "search_places" }, "none", "none", FALSE, {}, {}),
      Query({ "search_flights" }, "none", "none", FALSE, {}, {}),
      Query({ "search_flights" }, "none", "toOnly", FALSE, {}, {}) }

\* the turns of a history whose text names a place
Mentions(h) == { i \in 1..Len(h) : h[i].text # Text("none", "none", "none") }

\* a run that ends in success, as one step: its two turns are pushed and the
\* history is cut; the message and the tool list of the run are gone with it
Exchange(limit) ==
    /\ pc = "idle"
    /\ appended < 2 * limit
    /\ \E said \in HumanTexts, answer \in AITexts :
        LET h == chatHistory \o << Said(HumanTurn(appended + 1), said),
                                   Said(AITurn(appended + 2), answer) >>
        IN  /\ Cardinality(Mentions(h)) <= MaxMentions
            /\ chatHistory' = Truncate(h)
    /\ appended' = appended + 2
    /\ initialized' = TRUE
    /\ userMessage' = NoMessage
    /\ requiredTools' = << >>
    /\ UNCHANGED << pc, stage, additionalTools, toolIdx, toolsUsed, messages,
                    response, firstDraft, reasoningSteps, iterations, llmCalls,
                    result >>
    /\ UNCHANGED outside

\* const requiredTools = this.detectRequiredTools(userMessage)
Classify(inputs) ==
    /\ pc = "idle"
    /\ \E q \in inputs :
        /\ userMessage' = q
        /\ requiredTools' = detectRequiredToolsIn(q, chatHistory)
    /\ UNCHANGED << chatHistory, initialized, appended, pc, stage,
                    additionalTools, toolIdx, toolsUsed, messages, response,
                    firstDraft, reasoningSteps, iterations, llmCalls, result >>
    /\ UNCHANGED outside

Converse == Exchange(MaxExchanges)
ClassifyFollowUp == Classify(FollowUps)

NextExtract ==
    \/ Converse
    \/ ClassifyFollowUp

SpecExtract == Init /\ [][NextExtract]_vars

(***************************************************************************)
(* detectRequiredTools as a function of the message and of the history:    *)
(* the message and a short conversation are drawn at the start and the     *)
(* function is applied to them.                                            *)
(***************************************************************************)
\* the histories of conversations of at most n exchanges
RECURSIVE Histories(_)
Histories(n) ==
    IF n = 0 THEN { << >> }
    ELSE Histories(n - 1) \cup
         { h \o << Said(HumanTurn(Len(h) + 1), said), Said(AITurn(Len(h) + 2), answer) >> :
             h \in { g \in Histories(n - 1) : Len(g) = 2 * (n - 1) },
             said \in HumanTexts, answer \in AITexts }

\* the agent after such a conversation, called with a message: the run is
\* at the statement that classifies it
InitDetect ==
    /\ chatHistory \in Histories(MaxExchangesShort)
    /\ initialized = (chatHistory # << >>)
    /\ appended = Len(chatHistory)
    /\ pc = "classify"
    /\ stage = "none"
    /\ userMessage \in Queries
    /\ requiredTools = << >>
    /\ additionalTools = << >>
    /\ toolIdx = 0
    /\ toolsUsed = << >>
    /\ messages = << >>
    /\ response = NoDraft
    /\ firstDraft = NoDraft
    /\ reasoningSteps = 0
    /\ iterations = 0
    /\ llmCalls = 0
    /\ result = NoResult
    /\ other = NoCall
    /\ cache = << >>
    /\ now = 0
    /\ fetches = 0
    /\ rateCall = NoRateCall

\* const requiredTools = this.detectRequiredTools(userMessage)
ClassifyQuery ==
    /\ pc = "classify"
    /\ requiredTools' = detectRequiredToolsIn(userMessage, chatHistory)
    /\ pc' = "classified"
    /\ UNCHANGED << chatHistory, initialized, appended, stage, userMessage,
                    additionalTools, toolIdx, toolsUsed, messages, response,
                    firstDraft, reasoningSteps, iterations, llmCalls, result >>
    /\ UNCHANGED outside

NextDetect == ClassifyQuery

SpecDetect == InitDetect /\ [][NextDetect]_vars

(***************************************************************************)
(* One run from the classification on: the message is classified block by  *)
(* block, then the tool loop and the LLM invocations go as in Spec (the     *)
(* loop looks each tool up by the name of its entry).                      *)
(***************************************************************************)
\* the names of the tool calls of a list, in list order
NamesOf(calls) == [i \in 1..Len(calls) |-> calls[i].name]

\* messages that name Athens (flights: from Vienna to Athens; currency: an
\* amount in dollars), with or without two context keywords
RunQueries ==
    { Query(kw, "Athens",
            IF "search_flights" \in kw THEN "fromTo" ELSE "none",
            "convert_currency" \in kw,
            IF "convert_currency" \in kw THEN { "USD" } ELSE {},
            ctx) :
        kw \in KeywordSets, ctx \in { {}, { "family", "days" } } }

\* the agent after the constructor and initialize, called with a message:
\* the run is at the statement that classifies it
InitRun ==
    /\ chatHistory = << >>
    /\ initialized = TRUE
    /\ appended = 0
    /\ pc = "classify"
    /\ stage = "none"
    /\ userMessage \in RunQueries
    /\ requiredTools = << >>
    /\ additionalTools = << >>
    /\ toolIdx = 0
    /\ toolsUsed = << >>
    /\ messages = << >>
    /\ response = NoDraft
    /\ firstDraft = NoDraft
    /\ reasoningSteps = 0
    /\ iterations = 0
    /\ llmCalls = 0
    /\ result = NoResult
    /\ other = NoCall
    /\ cache = << >>
    /\ now = 0
    /\ fetches = 0
    /\ rateCall = NoRateCall

\* from the classification to the first await of the run
BeginClassified ==
    /\ pc = "classify"
    /\ LET tools == NamesOf(detectRequiredToolsIn(userMessage, chatHistory))
       IN  /\ requiredTools' = tools
           /\ ContinueTools(tools, 1, << PromptMessage >> \o chatHistory,
                            IF Len(tools) > 0 THEN 1 ELSE 0)
    /\ UNCHANGED << chatHistory, initialized, appended, userMessage,
                    additionalTools, toolsUsed, response, firstDraft, iterations,
                    llmCalls, result >>
    /\ UNCHANGED outside

NextRun ==
    \/ BeginClassified
    \/ ToolReturns
    \/ ToolThrows
    \/ LLMReturns
    \/ LLMThrows

SpecRun == InitRun /\ [][NextRun]_vars

(***************************************************************************)
(* identifyQueryType (prompts/templates.js).  A user message is the set of *)
(* keywords its lower-cased text includes.                                 *)
(***************************************************************************)
\* most keywords a message of the inputs is made of
MaxKeywords == 4

\* the keys of queryTemplates other than 'general', in insertion order
QueryTypes == << "destination", "packing", "attractions" >>

\* queryTemplates[type].keywords
keywords(type) ==
    IF type = "destination" THEN
        <<
          "where should", "where can", "where to", "destination",
          "place to visit", "recommend a", "suggest a", "country", "city",
          "travel to", "trip to", "vacation in", "holiday in", "visit",
          "looking for somewhere" >>
    ELSE IF type = "packing" THEN
        <<
          "pack", "packing", "bring", "take", "luggage", "suitcase",
          "what to wear", "what should i wear", "clothes", "clothing",
          "gear", "essentials", "items", "stuff" >>
    ELSE IF type = "attractions" THEN
        <<
          "do in", "do at", "see in", "see at", "visit in", "attractions",
          "activities", "things to do", "sights", "itinerary", "places",
          "restaurants", "eat", "food", "nightlife", "fun",
          "entertainment", "must see", "best", "top", "recommended" >>
    ELSE << >>

\* keyword.length
length ==
    ("where should" :> 12) @@
    ("where can" :> 9) @@
    ("where to" :> 8) @@
    ("destination" :> 11) @@
    ("place to visit" :> 14) @@
    ("recommend a" :> 11) @@
    ("suggest a" :> 9) @@
    ("country" :> 7) @@
    ("city" :> 4) @@
    ("travel to" :> 9) @@
    ("trip to" :> 7) @@
    ("vacation in" :> 11) @@
    ("holiday in" :> 10) @@
    ("visit" :> 5) @@
    ("looking for somewhere" :> 21) @@
    ("pack" :> 4) @@
    ("packing" :> 7) @@
    ("bring" :> 5) @@
    ("take" :> 4) @@
    ("luggage" :> 7) @@
    ("suitcase" :> 8) @@
    ("what to wear" :> 12) @@
    ("what should i wear" :> 18) @@
    ("clothes" :> 7) @@
    ("clothing" :> 8) @@
    ("gear" :> 4) @@
    ("essentials" :> 10) @@
    ("items" :> 5) @@
    ("stuff" :> 5) @@
    ("do in" :> 5) @@
    ("do at" :> 5) @@
    ("see in" :> 6) @@
    ("see at" :> 6) @@
    ("visit in" :> 8) @@
    ("attractions" :> 11) @@
    ("activities" :> 10) @@
    ("things to do" :> 12) @@
    ("sights" :> 6) @@
    ("itinerary" :> 9) @@
    ("places" :> 6) @@
    ("restaurants" :> 11) @@
    ("eat" :> 3) @@
    ("food" :> 4) @@
    ("nightlife" :> 9) @@
    ("fun" :> 3) @@
    ("entertainment" :> 13) @@
    ("must see" :> 8) @@
    ("best" :> 4) @@
    ("top" :> 3) @@
    ("recommended" :> 11)

AllKeywords == UNION { Range(keywords(QueryTypes[i])) : i \in 1..Len(QueryTypes) }

\* the keywords that are part of another keyword: a text that includes the
\* longer one includes these too
PartsOf(keyword) ==
    { part \in AllKeywords : << keyword, part >> \in
        { << "place to visit", "visit" >>,
          << "packing", "pack" >>,
          << "visit in", "visit" >> } }

\* messageLower.includes(keyword), for every keyword at once
Included(words) == words \cup UNION { PartsOf(w) : w \in words }

\* the inner loop: scores[type] += keyword.length > 10 ? 2 : 1 for every
\* keyword of the list the message includes
RECURSIVE ScoreOf(_, _)
ScoreOf(list, included) ==
    IF list = << >> THEN 0
    ELSE (IF Head(list) \in included
          THEN (IF length[Head(list)] > 10 THEN 2 ELSE 1)
          ELSE 0) + ScoreOf(Tail(list), included)

\* the second loop, from the i-th entry of scores on, with >= for >
RECURSIVE FindBestLastWins(_, _, _, _)
FindBestLastWins(i, included, maxScore, bestType) ==
    IF i > Len(QueryTypes)
    THEN [maxScore |-> maxScore, bestType |-> bestType]
    ELSE LET score == ScoreOf(keywords(QueryTypes[i]), included)
         IN  IF score >= maxScore
             THEN FindBestLastWins(i + 1, included, score, QueryTypes[i])
             ELSE FindBestLastWins(i + 1, included, maxScore, bestType)

\* the second loop, from the i-th entry of scores on
RECURSIVE FindBest(_, _, _, _)
FindBest(i, included, maxScore, bestType) ==
    IF i > Len(QueryTypes)
    THEN [maxScore |-> maxScore, bestType |-> bestType]
    ELSE LET score == ScoreOf(keywords(QueryTypes[i]), included)
         IN  IF score > maxScore
             THEN FindBest(i + 1, included, score, QueryTypes[i])
             ELSE FindBest(i + 1, included, maxScore, bestType)

identifyQueryType(message) ==
    LET best == FindBest(1, Included(message.words), 0, "general")
    IN  IF best.maxScore >= 1 THEN best.bestType ELSE "general"

\* the keywords the messages of the inputs are made of: of every list some
\* of at most 10 characters and some longer ones, and the keywords that are
\* part of another
SampleWords ==
    { "where should", "place to visit", "visit", "city", "looking for somewhere",
      "pack", "packing", "luggage", "what should i wear", "bring",
      "visit in", "things to do", "best", "eat", "restaurants" }

\* the messages: every set of at most MaxKeywords of these keywords
RECURSIVE WordSets(_)
WordSets(n) ==
    IF n = 0 THEN { {} }
    ELSE LET smaller == WordSets(n - 1)
         IN  smaller \cup { s \cup { w } : s \in smaller, w \in SampleWords }

InitQueryType ==
    /\ chatHistory = << >>
    /\ initialized = TRUE
    /\ appended = 0
    /\ pc = "identify"
    /\ stage = "none"
    /\ userMessage \in { [isString |-> TRUE, words |-> w] : w \in WordSets(MaxKeywords) }
    /\ requiredTools = << >>
    /\ additionalTools = << >>
    /\ toolIdx = 0
    /\ toolsUsed = << >>
    /\ messages = << >>
    /\ response = NoDraft
    /\ firstDraft = NoDraft
    /\ reasoningSteps = 0
    /\ iterations = 0
    /\ llmCalls = 0
    /\ result = NoResult
    /\ other = NoCall
    /\ cache = << >>
    /\ now = 0
    /\ fetches = 0
    /\ rateCall = NoRateCall

\* const queryType = identifyQueryType(userMessage)
IdentifyQueryType ==
    /\ pc = "identify"
    /\ pc' = "identified"
    /\ result' = [status |-> "returned", queryType |-> identifyQueryType(userMessage)]
    /\ UNCHANGED << chatHistory, initialized, appended, stage, userMessage,
                    requiredTools, additionalTools, toolIdx, toolsUsed, messages,
                    response, firstDraft, reasoningSteps, iterations, llmCalls >>
    /\ UNCHANGED outside

NextQueryType == IdentifyQueryType

SpecQueryType == InitQueryType /\ [][NextQueryType]_vars

(***************************************************************************)
(* CurrencyService.getExchangeRate (services/currency.js): the cache of    *)
(* exchange rates.  Time is Date.now() in milliseconds; the calls are made *)
(* one after the other.                                                    *)
(***************************************************************************)
\* this.cacheExpiry
cacheExpiry == 3600000
\* the clock goes on in steps of 20 minutes
Tick == 1200000
\* how many such steps the clock makes
MaxTicks == 4
\* how many getExchangeRate calls are made
MaxRateCalls == 4

\* the arguments of the calls
Froms == { "USD", "usd" }
Tos == { "EUR" }

toUpperCase(code) == IF code = "usd" THEN "USD" ELSE code

\* `${from}_${to}`
cacheKey(from, to) == << from, to >>

\* what the provider answers with: an HTTP error, a body whose result is not
\* 'success', or the rates of the day (rate 0: no rate for the target code)
ProviderAnswers ==
    { [ok |-> FALSE, result |-> "error", rate |-> 0, time |-> "none"],
      [ok |-> TRUE, result |-> "error", rate |-> 0, time |-> "none"],
      [ok |-> TRUE, result |-> "success", rate |-> 0, time |-> "today"],
      [ok |-> TRUE, result |-> "success", rate |-> 1, time |-> "today"],
      [ok |-> TRUE, result |-> "success", rate |-> 2, time |-> "tomorrow"] }

\* the value getExchangeRate resolves with (calculation is a function of rate)
RateData(from, to, rate, lastUpdate) ==
    [status |-> "returned", from |-> toUpperCase(from), to |-> toUpperCase(to),
     rate |-> rate, lastUpdate |-> lastUpdate]
\* return null
Null == [status |-> "returned", null |-> TRUE]

\* an entry that still counts as fresh when it is exactly one hour old
FreshAtExpiry(timestamp) == now - timestamp <= cacheExpiry

\* Date.now() - cached.timestamp < this.cacheExpiry
Fresh(timestamp) == now - timestamp < cacheExpiry

\* what the steps of the currency service leave alone
agentVars ==
    << chatHistory, initialized, appended, pc, stage, userMessage,
       requiredTools, additionalTools, toolIdx, toolsUsed, messages, response,
       firstDraft, reasoningSteps, iterations, llmCalls, result, other >>

\* getExchangeRate is called: it returns the cached data or awaits fetch
GetExchangeRate ==
    /\ rateCall.pc = "idle"
    /\ rateCall.n < MaxRateCalls
    /\ \E from \in Froms, to \in Tos :
        LET key == cacheKey(from, to)
        IN  IF key \in DOMAIN cache /\ Fresh(cache[key].timestamp)
            THEN /\ rateCall' = [pc |-> "idle", n |-> rateCall.n + 1, from |-> from,
                                 to |-> to, result |-> cache[key].data]
                 /\ fetches' = fetches
            ELSE /\ rateCall' = [pc |-> "fetch", n |-> rateCall.n + 1, from |-> from,
                                 to |-> to, result |-> NoResult]
                 /\ fetches' = fetches + 1
    /\ UNCHANGED << cache, now, agentVars >>

\* fetch resolves: a usable rate is cached and returned, anything else
\* throws into the catch, which returns null
FetchResolves ==
    /\ rateCall.pc = "fetch"
    /\ \E data \in ProviderAnswers :
        IF data.ok /\ data.result = "success" /\ data.rate # 0
        THEN LET resolved == RateData(rateCall.from, rateCall.to, data.rate, data.time)
             IN  /\ cache' = (cacheKey(rateCall.from, rateCall.to) :>
                                 [data |-> resolved, timestamp |-> now]) @@ cache
                 /\ rateCall' = [rateCall EXCEPT !.pc = "idle", !.result = resolved]
        ELSE /\ cache' = cache
             /\ rateCall' = [rateCall EXCEPT !.pc = "idle", !.result = Null]
    /\ UNCHANGED << now, fetches, agentVars >>

\* fetch rejects (no network): the catch returns null
FetchRejects ==
    /\ rateCall.pc = "fetch"
    /\ rateCall' = [rateCall EXCEPT !.pc = "idle", !.result = Null]
    /\ UNCHANGED << cache, now, fetches, agentVars >>

\* time passes
TimePasses ==
    /\ now < MaxTicks * Tick
    /\ now' = now + Tick
    /\ UNCHANGED << cache, fetches, rateCall, agentVars >>

NextCurrency ==
    \/ GetExchangeRate
    \/ FetchResolves
    \/ FetchRejects
    \/ TimePasses

SpecCurrency == Init /\ [][NextCurrency]_vars

(***************************************************************************)
(* Properties                                                              *)
(***************************************************************************)
Min(a, b) == IF a < b THEN a ELSE b

\* the last processMessage call has resolved, with the success result
RunSucceeded == pc = "idle" /\ result.status = "returned" /\ result.success
\* the last processMessage call has resolved, with the error result
RunFailed == pc = "idle" /\ result.status = "returned" /\ ~result.success

\* the weather tool of the run resolved with success and a location
WeatherSucceeded ==
    \E i \in 1..Len(toolsUsed) :
        /\ toolsUsed[i].tool = "get_weather"
        /\ ~toolsUsed[i].threw
        /\ HasSuccess(toolsUsed[i].result)
        /\ HasLocation(toolsUsed[i].result)

\* how many messages of the given kind the prompt holds
CountKind(msgs, kind) == Cardinality({ i \in 1..Len(msgs) : msgs[i].kind = kind })

\* the notices (result or failed) of the named tool in the prompt
NoticesOf(msgs, name) ==
    { i \in 1..Len(msgs) :
        msgs[i].kind \in {"result", "failed"} /\ msgs[i].names = {name} }

\* C1: the history never holds more than 20 messages; what it holds are the
\* most recently appended messages, in insertion order; and an append that
\* pushes it past 20 leaves exactly 20.
C1_HistoryWindow ==
    /\ [](/\ Len(chatHistory) <= HistoryWindow
          /\ \A i \in 1..Len(chatHistory) :
                chatHistory[i].seq = appended - Len(chatHistory) + i)
    /\ [][appended' # appended =>
            Len(chatHistory') = Min(Len(chatHistory) + 2, HistoryWindow)]_vars

\* 26 messages were appended: the first one left is the 7th, the last the 26th
C1_Witness ==
    /\ appended = 26
    /\ Len(chatHistory) = 20
    /\ chatHistory[1].seq = 7
    /\ chatHistory[20].seq = 26

\* C2 (as claimed): a run in which the weather tool succeeded with a location
\* and the first draft did not mention it has re-invoked the LLM, once, with
\* the weather instruction in the prompt.
C2_WeatherCorrectedOnce ==
    (RunSucceeded /\ WeatherSucceeded /\ ~firstDraft.loc)
        => (llmCalls >= 2 /\ CountKind(messages, "weather") = 1)

\* the first draft violates the rules of the named domain
Violates(domain) ==
    \/ domain = "weather" /\ WeatherSucceeded /\ ~firstDraft.loc
    \/ domain = "flight" /\ Used(toolsUsed, "search_flights") /\ firstDraft.sig

\* C3 (as claimed): a run whose first draft violated the rules of two domains
\* has both correction instructions in the prompt and has re-invoked the LLM
\* exactly once.
C3_SingleReinvocation ==
    (RunSucceeded /\ Violates("weather") /\ Violates("flight"))
        => /\ llmCalls = 2
           /\ CountKind(messages, "weather") = 1
           /\ CountKind(messages, "flight") = 1

\* a step of processMessage (clearHistory changes none of these)
RunStep == << pc, toolIdx, llmCalls, result >>' # << pc, toolIdx, llmCalls, result >>
\* the step in which processMessage resolves with the success result
FinalStep ==
    pc = "llm" /\ pc' = "idle" /\ result'.status = "returned" /\ result'.success

\* C4: a step of processMessage changes the history only if it is the final
\* step, which follows the last LLM invocation; the steps before it and the
\* step into the error result leave the history as it is.
C4_HistoryOnlyAtFinalStep ==
    [][RunStep => (chatHistory' = chatHistory \/ FinalStep)]_vars

\* a run failed on an LLM invocation while the history held earlier turns
C4_Witness ==
    /\ RunFailed
    /\ result.details = "LLMError"
    /\ Len(chatHistory) = 2
    /\ Len(toolsUsed) > 0

\* C5: the promise of processMessage never rejects; an exception of
\* initialize, of the classification or of an LLM invocation ends the run
\* with {success: false, error: the apology, details: the error's message}.
C5_NeverThrows ==
    /\ [](result.status \in {"none", "returned"})
    /\ [][/\ (pc = "llm" /\ pc' = "idle" /\ llmCalls' = llmCalls)
                => result' = Failure("LLMError")
          /\ (pc = "init" /\ pc' = "idle" /\ ~initialized')
                => result' = Failure("InitError")
          /\ (pc \in {"init", "idle"} /\ RunStep /\ initialized'
                /\ ~userMessage'.isString)
                => result' = Failure("TypeError")]_vars

\* a run ended in the error result after an LLM invocation rejected
C5_Witness ==
    /\ RunFailed
    /\ result = Failure("LLMError")
    /\ initialized

\* C6: the step in which a tool executor resolves or throws never ends the
\* run: the loop goes on with exactly one notice of that tool in the prompt.
\* When the executor has thrown, that notice is the failed notice, it is in
\* the prompt from then on (so at the synthesis call), and the run resolves
\* with the success result unless an LLM invocation rejects.
C6_ToolFailureNarrated ==
    /\ [](\A i \in 1..Len(toolsUsed) :
            toolsUsed[i].threw =>
                /\ \E k \in 1..Len(messages) :
                      messages[k] = FailedNotice(toolsUsed[i].tool)
                /\ pc = "idle" =>
                      /\ result.status = "returned"
                      /\ (result.success \/ result.details = "LLMError"))
    /\ [][(pc = "tool" /\ RunStep) =>
            /\ pc' \in {"tool", "llm"}
            /\ Cardinality(NoticesOf(messages', requiredTools[toolIdx])) = 1]_vars

\* a run in which a tool threw has resolved with the success result
C6_Witness ==
    /\ RunSucceeded
    /\ \E i \in 1..Len(toolsUsed) : toolsUsed[i].threw
    /\ \E i \in 1..Len(result.toolsUsed) : result.toolsUsed[i].threw

\* C7 (as claimed): at the first LLM invocation the prompt holds exactly one
\* notice (result or failed) for every entry of the required-tool list.
C7_EveryToolNoticed ==
    (pc = "llm" /\ stage = "synth") =>
        \A i \in 1..Len(requiredTools) :
            Cardinality(NoticesOf(messages, requiredTools[i])) = 1

\* C8 (as claimed): every name in the required-tool list is the name of a
\* tool of travelTools.
C8_EveryNameRegistered ==
    \A i \in 1..Len(requiredTools) : Registered(requiredTools[i])

C10_FollowUpBounded ==
    /\ [](/\ iterations <= maxIterations
          /\ llmCalls <= 1 + CountKind(messages, "weather") + iterations
          /\ (pc \in {"tool", "llm"} /\ stage \in {"additional", "followup"})
                => (response.marker /\ iterations < maxIterations))
    /\ [][(llmCalls' = llmCalls + 1 /\ ~response'.marker /\ stage' # "weather")
            => (pc' = "idle" /\ result'.status = "returned" /\ result'.success
                /\ messages' = messages)]_vars

\* a run went through all three iterations and ended on a draft that still
\* has the marker
C10_Witness ==
    /\ RunSucceeded
    /\ iterations = 3
    /\ llmCalls = 4
    /\ response.marker

\* C11: a run that is under way always comes to its end when the awaited
\* calls settle, and it invokes the LLM a bounded number of times: once for
\* the synthesis, at most once per correction instruction (weather, flight,
\* currency: each is pushed at most once), at most once per follow-up
\* iteration, of which there are at most 3.
C11_TerminatesBounded ==
    /\ [](/\ CountKind(messages, "weather") <= 1
          /\ CountKind(messages, "flight") <= 1
          /\ CountKind(messages, "currency") <= 1
          /\ iterations <= maxIterations
          /\ llmCalls <= 1 + CountKind(messages, "weather")
                           + CountKind(messages, "flight")
                           + CountKind(messages, "currency") + iterations)
    /\ (pc # "idle") ~> (pc = "idle")

\* a run ended after the synthesis call and three follow-up calls, the last
\* of whose drafts asks for nothing more
C11_Witness ==
    /\ RunSucceeded
    /\ llmCalls = 1 + maxIterations
    /\ ~response.marker
    /\ Len(toolsUsed) >= 2

\* C12 (as claimed): a run that executed the flights tool, whether the call
\* resolved or threw, and whose first draft matches a hallucination
\* signature has the flight instruction in the prompt and has invoked the
\* LLM again.
C12_FlightHallucinationCorrected ==
    (RunSucceeded /\ Used(toolsUsed, "search_flights") /\ firstDraft.sig)
        => (llmCalls >= 2 /\ CountKind(messages, "flight") = 1)

\* the currency tool of the run resolved with success and a converted amount
CurrencySucceeded ==
    \E i \in 1..Len(toolsUsed) :
        /\ toolsUsed[i].tool = "convert_currency"
        /\ ~toolsUsed[i].threw
        /\ HasSuccess(toolsUsed[i].result)
        /\ HasConverted(toolsUsed[i].result)

Classified == userMessage.isString

\* the history with the text of every Assistant turn replaced by the given one
Reworded(h, text) ==
    [i \in 1..Len(h) |-> IF h[i].type = "ai" THEN [h[i] EXCEPT !.text = text] ELSE h[i]]

\* the places the tool calls of a list are made with
PlacesOf(list) ==
    { list[i].args.city :
        i \in { k \in 1..Len(list) : list[k].name \in { "search_hotels", "search_places" } } }
    \cup { list[i].args.origin :
             i \in { k \in 1..Len(list) : list[k].name = "search_flights" } }
    \cup { list[i].args.destination :
             i \in { k \in 1..Len(list) : list[k].name = "search_flights" } }

\* the places only the Assistant texts of the model name
AssistantPlaces == { "Paris", "Madrid" }

\* C14: the tool calls detectRequiredTools schedules for a message are the
\* same whatever the Assistant turns of the history say, and no place they
\* are made with is one that only an Assistant turn names.
C14_AssistantTurnsIgnored ==
    Classified =>
        /\ \A text \in AITexts :
              detectRequiredToolsIn(userMessage, Reworded(chatHistory, text))
                  = requiredTools
        /\ PlacesOf(requiredTools) \cap AssistantPlaces = {}

\* "I'm flying to Lisbon", an answer that mentions Paris, "any hotel tips?":
\* the hotels are searched in Lisbon
C14_Witness ==
    /\ Classified
    /\ Len(chatHistory) = 2
    /\ chatHistory[1].text.loc = "Lisbon"
    /\ chatHistory[2].text.loc = "Paris"
    /\ requiredTools = << ToolCall("search_hotels", [city |-> "Lisbon"]) >>

\* the Human turns of a window in which a pattern of the family matches
HumanMentions(recent, family) ==
    { i \in 1..Len(recent) : recent[i].type = "human" /\ recent[i].text[family] # "none" }

Newest(S) == CHOOSE i \in S : \A k \in S : i >= k

\* C15 (as claimed): for a message without a place of its own, the hotel and
\* the places call are made with the place of the most recent Human turn of
\* the window that names one, and the flight call with the destination of the
\* most recent Human turn that names a destination.
C15_NewestFirst ==
    (Classified /\ userMessage.place = "none" /\ userMessage.flight = "none") =>
        LET recent == SliceLast(chatHistory, LocationWindow)
            recentF == SliceLast(chatHistory, FlightWindow)
            L == HumanMentions(recent, "loc")
            D == HumanMentions(recentF, "dest")
        IN  /\ (L # {} /\ "search_flights" \notin userMessage.kw) =>
                  /\ Len(requiredTools) = 1
                  /\ requiredTools[1].args.city = Capitalize(recent[Newest(L)].text.loc)
            /\ (D # {} /\ "search_flights" \in userMessage.kw /\ requiredTools # << >>) =>
                  requiredTools[1].args.destination
                      = normalizeLocationForFlights(recentF[Newest(D)].text.dest)

\* the only turn of the history that names a place is the Human turn i
OnlyMention(h, i) == Mentions(h) = { i } /\ h[i].type = "human"

\* how many Human turns the history holds from turn i on
HumanTurnsFrom(h, i) == Cardinality({ k \in i..Len(h) : h[k].type = "human" })

\* C16 (as claimed), for a destination that one Human turn alone names: when
\* that turn is one of the 6 most recent Human turns, a message without a
\* place of its own has its hotel or places call made with that destination.
C16_SixHumanTurns ==
    (/\ Classified
     /\ userMessage.place = "none"
     /\ "search_flights" \notin userMessage.kw) =>
        \A i \in 1..Len(chatHistory) :
            (/\ OnlyMention(chatHistory, i)
             /\ chatHistory[i].text.loc # "none"
             /\ HumanTurnsFrom(chatHistory, i) <= 6) =>
                /\ Len(requiredTools) = 1
                /\ requiredTools[1].args.city = Capitalize(chatHistory[i].text.loc)

\* C16 (amended): the fallback covers the last 6 messages of the history,
\* Assistant turns counted (the last 10 for the flight extractors).  A
\* message without a place of its own has its hotel or places call scheduled
\* exactly when a Human turn among the last 6 messages names a place, and
\* then with a place one of those turns names; a flight call without cities
\* in the message is scheduled exactly when Human turns among the last 10
\* messages name a destination and an origin.
C16_WindowOfMessages ==
    (Classified /\ userMessage.place = "none" /\ userMessage.flight = "none") =>
        LET n == Len(chatHistory)
            L == { i \in 1..n : /\ i > n - 6
                                /\ chatHistory[i].type = "human"
                                /\ chatHistory[i].text.loc # "none" }
            D == { i \in 1..n : /\ i > n - 10
                                /\ chatHistory[i].type = "human"
                                /\ chatHistory[i].text.dest # "none" }
            O == { i \in 1..n : /\ i > n - 10
                                /\ chatHistory[i].type = "human"
                                /\ chatHistory[i].text.origin # "none" }
        IN  IF "search_flights" \in userMessage.kw
            THEN requiredTools # << >> <=> (D # {} /\ O # {})
            ELSE /\ requiredTools # << >> <=> L # {}
                 /\ requiredTools # << >> =>
                       requiredTools[1].args.city
                           \in { Capitalize(chatHistory[i].text.loc) : i \in L }

\* after four exchanges the second Human turn, the only one to name a place,
\* is the oldest Human turn among the last 6 messages: it is found
C16_Witness ==
    /\ Classified
    /\ Len(chatHistory) = 8
    /\ OnlyMention(chatHistory, 3)
    /\ requiredTools = << ToolCall("search_hotels", [city |-> "Lisbon"]) >>

\* the call of the named tool in the list
CallsOf(list, name) == { i \in 1..Len(list) : list[i].name = name }

\* a string that is an entity: neither null nor empty
IsEntity(value) == value \notin { "none", "" }

\* a Human turn of the history names a place the family of patterns finds
\* (the histories of SpecDetect are shorter than either window)
HistoryNames(family) == HumanMentions(chatHistory, family) # {}

\* C17: every call detectRequiredTools schedules for an entity-based tool is
\* made with an entity that is neither null nor empty, and a tool whose
\* keywords hit is not scheduled when its entity cannot be resolved: no
\* usable place in the message (weather, country), no amount or no currency
\* (currency), no place in the message nor in the Human turns of the history
\* (hotels, places), no city in the message and not both cities in the
\* Human turns of the history (flights).
C17_EntityRequired ==
    pc = "classified" =>
        LET q == userMessage
            calls == requiredTools
        IN  /\ \A i \in CallsOf(calls, "get_weather") : IsEntity(calls[i].args.location)
            /\ \A i \in CallsOf(calls, "get_country_info") : IsEntity(calls[i].args.country)
            /\ \A i \in CallsOf(calls, "convert_currency") :
                  /\ calls[i].args # NoMatch
                  /\ calls[i].args.fromCurrency \in q.currencies
            /\ \A i \in CallsOf(calls, "search_flights") :
                  IsEntity(calls[i].args.origin) /\ IsEntity(calls[i].args.destination)
            /\ \A i \in CallsOf(calls, "search_hotels") : IsEntity(calls[i].args.city)
            /\ \A i \in CallsOf(calls, "search_places") : IsEntity(calls[i].args.city)
            /\ ~IsEntity(q.place) =>
                  /\ CallsOf(calls, "get_weather") = {}
                  /\ CallsOf(calls, "get_country_info") = {}
            /\ (~q.amount \/ q.currencies = {}) => CallsOf(calls, "convert_currency") = {}
            /\ (q.place = "" \/ (q.place = "none" /\ ~HistoryNames("loc"))) =>
                  /\ CallsOf(calls, "search_hotels") = {}
                  /\ CallsOf(calls, "search_places") = {}
            /\ (q.flight = "none" /\ ~(HistoryNames("dest") /\ HistoryNames("origin"))) =>
                  CallsOf(calls, "search_flights") = {}

\* a message with weather and hotel keywords and no place of its own, after
\* "I'm flying to Lisbon": no weather call, the hotel call is made for Lisbon
C17_Witness ==
    /\ pc = "classified"
    /\ userMessage.kw = { "get_weather", "search_hotels" }
    /\ userMessage.place = "none"
    /\ Len(chatHistory) = 2
    /\ requiredTools = << ToolCall("search_hotels", [city |-> "Lisbon"]) >>

Position(name) == CHOOSE k \in 1..Len(ToolOrder) : ToolOrder[k] = name

\* the names of the executed tools, in the order of their execution
ExecutedNames == [i \in 1..Len(toolsUsed) |-> toolsUsed[i].tool]

IsNotice(m) == m.kind \in { "result", "failed" }

\* the tool names of the notices of the prompt, in prompt order
NoticeNames ==
    LET notices == SelectSeq(messages, IsNotice)
    IN  [i \in 1..Len(notices) |-> CHOOSE name \in notices[i].names : TRUE]

\* C19: the list detectRequiredTools returns is in the order weather,
\* country, currency, flights, hotels, places, context analysis, each tool
\* at most once; the tools executed so far are the registered entries of
\* the list before the loop's position, in list order, and their notices
\* stand in the prompt in the same order.
C19_FixedOrder ==
    pc # "classify" =>
        /\ \A i, j \in 1..Len(requiredTools) :
              i < j => Position(requiredTools[i]) < Position(requiredTools[j])
        /\ LET handled == SubSeq(requiredTools, 1,
                                 Min(toolIdx, Len(requiredTools) + 1) - 1)
               executed == FilterSeq(handled, Range(travelTools))
           IN  /\ ExecutedNames = executed
               /\ NoticeNames = executed

\* flights, hotels and the context analysis were executed in that order and
\* the first LLM invocation is awaited
C19_Witness ==
    /\ pc = "llm"
    /\ requiredTools = << "search_flights", "search_hotels", "analyze_user_context" >>
    /\ ExecutedNames = requiredTools
    /\ NoticeNames = requiredTools

\* the stored turns the prompt of the run holds
Captured(msgs) == SelectSeq(msgs, IsTurn)

\* C20: clearHistory leaves the history empty and changes nothing of a run
\* in flight.  The prompt of a run holds the history as it was when the run
\* built it, through every later step and whatever clearHistory does in
\* between, and a run whose LLM invocations resolve ends with the success
\* result; after a clear in mid-run the history then holds that run's two
\* turns alone.
C20_ClearLeavesRunAlone ==
    [][/\ (chatHistory' # chatHistory /\ ~RunStep) =>
              /\ chatHistory' = << >>
              /\ << pc, stage, messages, toolsUsed, toolIdx, response, result >>'
                    = << pc, stage, messages, toolsUsed, toolIdx, response, result >>
       /\ (pc \in { "idle", "init" } /\ pc' \in { "tool", "llm" }) =>
              Captured(messages') = chatHistory
       /\ (pc \in { "tool", "llm" } /\ pc' \in { "tool", "llm" }) =>
              Captured(messages') = Captured(messages)
       /\ (pc = "llm" /\ pc' = "idle" /\ llmCalls' > llmCalls) =>
              /\ result'.status = "returned" /\ result'.success
              /\ chatHistory' = Truncate(chatHistory \o
                                   << HumanTurn(appended + 1), AITurn(appended + 2) >>)]_vars

\* the second run of a conversation was sent the first exchange, the history
\* was cleared while it was in flight, and it has ended with the success
\* result: the history holds its two turns alone
C20_Witness ==
    /\ RunSucceeded
    /\ appended = 4
    /\ Len(Captured(messages)) = 2
    /\ chatHistory = << HumanTurn(3), AITurn(4) >>

\* C21: the step in which a run resolves with the success result appends
\* exactly two messages to the history and changes nothing else of it: first
\* a Human message whose content is the run's user message, then an
\* Assistant message whose content is the content of the result; the result
\* carries the run's toolsUsed and its step count.
C21_TwoTurnsAppended ==
    [][FinalStep =>
          /\ Len(chatHistory') = Len(chatHistory) + 2
          /\ SubSeq(chatHistory', 1, Len(chatHistory)) = chatHistory
          /\ LET human == chatHistory'[Len(chatHistory) + 1]
                 assistant == chatHistory'[Len(chatHistory) + 2]
             IN  /\ human.type = "human"
                 /\ human.text = userMessage
                 /\ assistant.type = "ai"
                 /\ assistant.text = result'.content
          /\ result'.toolsUsed = toolsUsed
          /\ result'.steps = reasoningSteps']_vars

\* the second run of a conversation, a weather question, has succeeded: the
\* history holds the first exchange and then the question and the answer
\* that was returned
C21_Witness ==
    /\ RunSucceeded
    /\ Len(chatHistory) = 4
    /\ Len(result.toolsUsed) = 1
    /\ userMessage.hits = { "get_weather" }
    /\ chatHistory[3].type = "human" /\ chatHistory[3].text = userMessage
    /\ chatHistory[4].type = "ai" /\ chatHistory[4].text = result.content
    /\ chatHistory[1].text # userMessage

NoticeOf(entry, m) ==
    /\ m.names = { entry.tool }
    /\ m.kind = IF entry.threw THEN "failed" ELSE "result"
    /\ ~entry.threw => JSONparse(JSONparse(m.returned)) = entry.result

\* C23: the prompt of the first LLM invocation is the system instruction,
\* then the stored turns (the history as the run found it, in stored order),
\* then one notice per executed tool in execution order, then the user
\* message, and nothing else.
C23_PromptOrder ==
    (pc = "llm" /\ stage = "synth") =>
        LET turns == Captured(messages)
            n == Len(turns)
            k == Len(toolsUsed)
        IN  /\ Len(messages) = 1 + n + k + 1
            /\ messages[1] = PromptMessage
            /\ SubSeq(messages, 2, n + 1) = turns
            /\ \A i \in 1..(n - 1) : turns[i].seq < turns[i + 1].seq
            /\ chatHistory \in { << >>, turns }
            /\ \A i \in 1..k : NoticeOf(toolsUsed[i], messages[1 + n + i])
            /\ messages[Len(messages)] = UserMessage

\* the first LLM invocation of a second run is awaited after two tools, the
\* second of which threw: six messages, the two stored turns after the first
C23_Witness ==
    /\ pc = "llm" /\ stage = "synth"
    /\ Len(messages) = 6
    /\ chatHistory = << HumanTurn(1), AITurn(2) >>
    /\ Len(toolsUsed) = 2
    /\ ~toolsUsed[1].threw /\ toolsUsed[2].threw
    /\ messages[5].kind = "failed"

\* the weighted keyword score of a category: 2 for every keyword of its list
\* that the message includes and that is longer than 10 characters, 1 for
\* every other one it includes
WeightedScore(type) ==
    LET hit == Range(keywords(type)) \cap Included(userMessage.words)
    IN  2 * Cardinality({ w \in hit : length[w] > 10 })
          + Cardinality({ w \in hit : length[w] <= 10 })

\* C24: identifyQueryType returns 'general' when no category scores 1 or
\* more; otherwise it returns the category with the highest weighted score,
\* and of several with that score the first in the order destination,
\* packing, attractions.
C24_HighestScoreFirstWins ==
    pc = "identified" =>
        LET top == { i \in 1..Len(QueryTypes) :
                       \A j \in 1..Len(QueryTypes) :
                           WeightedScore(QueryTypes[j]) <= WeightedScore(QueryTypes[i]) }
            first == CHOOSE i \in top : \A j \in top : i <= j
        IN  result.queryType =
                IF WeightedScore(QueryTypes[first]) < 1 THEN "general"
                ELSE QueryTypes[first]

\* 'where should' (12 characters, weight 2) ties with 'luggage' and 'bring'
\* (weight 1 each): the message is a destination query
C24_Witness ==
    /\ pc = "identified"
    /\ userMessage.words = { "where should", "luggage", "bring" }
    /\ WeightedScore("destination") = 2
    /\ WeightedScore("packing") = 2
    /\ result.queryType = "destination"

\* the last stored turn a call found in the history when it built its prompt
LastCaptured(msgs) ==
    IF Captured(msgs) = << >> THEN 0 ELSE Captured(msgs)[Len(Captured(msgs))].seq

\* C28: with two calls overlapping, the history is made of pairs at every
\* moment: each Human turn is followed at once by the Assistant turn that
\* was pushed right after it, each Assistant turn follows its Human turn,
\* and the history holds at most 20 messages.  The step in which a call
\* resolves with the success result (a step of that call, not a turn of the
\* event loop to the other call) puts its two turns at the end.
C28_PairsStayAdjacent ==
    /\ [](/\ Len(chatHistory) <= HistoryWindow
          /\ \A i \in 1..Len(chatHistory) :
                IF chatHistory[i].type = "human"
                THEN /\ i < Len(chatHistory)
                     /\ chatHistory[i + 1] = AITurn(chatHistory[i].seq + 1)
                ELSE /\ i > 1
                     /\ chatHistory[i - 1] = HumanTurn(chatHistory[i].seq - 1))
    /\ [][(FinalStep /\ other' = other) =>
            LET n == Len(chatHistory')
            IN  /\ n >= 2
                /\ chatHistory'[n - 1] = HumanTurn(appended + 1)
                /\ chatHistory'[n] = AITurn(appended + 2)
                /\ \A i \in 1..(n - 2) :
                      chatHistory'[i] = chatHistory[i + Len(chatHistory) + 2 - n]]_vars

\* two calls that both found the 20th turn at the end of the history have
\* resolved with the success result: 24 messages were appended, the history
\* holds the last 20, the pair of the one call before the pair of the other
C28_Witness ==
    /\ RunSucceeded
    /\ other.pc = "idle" /\ other.result.status = "returned" /\ other.result.success
    /\ LastCaptured(messages) = 20
    /\ LastCaptured(other.messages) = 20
    /\ appended = 24
    /\ Len(chatHistory) = 20
    /\ chatHistory[17] = HumanTurn(21) /\ chatHistory[20] = AITurn(24)

\* the key of the call that is being made in this step
CalledKey == cacheKey(rateCall'.from, rateCall'.to)

\* C25: a getExchangeRate call for a pair whose cache entry is less than one
\* hour old returns the data of the entry without querying the provider; a
\* call for a pair without an entry, or with one that is an hour old or
\* older, queries the provider.  An entry is written only when a query
\* succeeds, and holds what that call returned and the time of its return.
C25_CachedForOneHour ==
    [][/\ rateCall'.n = rateCall.n + 1 =>
              IF CalledKey \in DOMAIN cache /\ now - cache[CalledKey].timestamp < 3600000
              THEN /\ rateCall'.pc = "idle"
                   /\ rateCall'.result = cache[CalledKey].data
                   /\ fetches' = fetches
              ELSE /\ rateCall'.pc = "fetch"
                   /\ fetches' = fetches + 1
       /\ cache' # cache =>
              /\ rateCall.pc = "fetch" /\ rateCall'.pc = "idle"
              /\ fetches' = fetches
              /\ rateCall'.result # Null
              /\ DOMAIN cache' = DOMAIN cache \cup { cacheKey(rateCall.from, rateCall.to) }
              /\ \A key \in DOMAIN cache' :
                    cache'[key] =
                        IF key = cacheKey(rateCall.from, rateCall.to)
                        THEN [data |-> rateCall'.result, timestamp |-> now]
                        ELSE cache[key]]_vars

\* the second call for a pair, 40 minutes after the first one returned, has
\* returned the cached data and the provider was queried once
C25_Witness ==
    /\ rateCall.n = 2
    /\ rateCall.pc = "idle"
    /\ fetches = 1
    /\ cacheKey(rateCall.from, rateCall.to) \in DOMAIN cache
    /\ now - cache[cacheKey(rateCall.from, rateCall.to)].timestamp = 2 * Tick
    /\ rateCall.result = cache[cacheKey(rateCall.from, rateCall.to)].data
    /\ rateCall.result.rate = 2

\* the tools whose use the validation step checks
ValidatedTools == { "get_weather", "search_flights", "convert_currency" }

\* C26 (as claimed): once the tools of a run were executed, the system
\* message that the validation selects for a tool whose executor resolved
\* is the result notice of that tool, and what it parses from the text
\* after "returned:" is the object the executor's result encodes.
C26_ValidatedPayloadIsToolResult ==
    (pc = "llm" /\ stage = "synth") =>
        \A i \in 1..Len(toolsUsed) :
            (toolsUsed[i].tool \in ValidatedTools /\ ~toolsUsed[i].threw) =>
                /\ messages[FindSystemMessage(messages, toolsUsed[i].tool)]
                      = ResultNotice(toolsUsed[i].tool, JSONstringify(toolsUsed[i].result))
                /\ ParsedToolData(messages, toolsUsed[i].tool) = toolsUsed[i].result

\* C27: with one call at a time the history has even length and alternates,
\* a Human message at every odd position and an Assistant message at every
\* even one, whatever the cut to 20 messages and clearHistory did to it.
C27_Alternates ==
    /\ Len(chatHistory) % 2 = 0
    /\ \A i \in 1..Len(chatHistory) :
          chatHistory[i].type = (IF i % 2 = 1 THEN "human" ELSE "ai")

\* the history was cut to its last 20 messages, then cleared, and one more
\* run has succeeded: it holds the 23rd and the 24th message appended
C27_Witness ==
    /\ RunSucceeded
    /\ appended = 24
    /\ chatHistory = << HumanTurn(23), AITurn(24) >>

\* a call is suspended at one of its awaits
InFlight == pc \in { "init", "tool", "llm" }

\* C29: while a call is in flight the history changes only by a clear, which
\* leaves it empty, or by the call's final step; and once it is empty the
\* steps of the call keep it empty until the final step, after which it
\* holds the two turns of that call and nothing else: the user message and
\* the content that was returned.
C29_OnlyOwnTurnsAfterClear ==
    [][/\ (InFlight /\ chatHistory' # chatHistory /\ ~FinalStep) =>
              chatHistory' = << >>
       /\ (InFlight /\ chatHistory = << >> /\ RunStep) =>
              \/ chatHistory' = << >>
              \/ /\ FinalStep
                 /\ chatHistory' = << Said(HumanTurn(appended + 1), userMessage),
                                      Said(AITurn(appended + 2), result'.content) >>]_vars

\* the second call was sent the first exchange, the history was cleared
\* before it resolved, and it has resolved with the success result: the
\* history holds its question and its answer only
C29_Witness ==
    /\ RunSucceeded
    /\ appended = 4
    /\ Len(Captured(messages)) = 2
    /\ Len(chatHistory) = 2
    /\ chatHistory[1].type = "human" /\ chatHistory[1].text = userMessage
    /\ chatHistory[2].type = "ai" /\ chatHistory[2].text = result.content
    /\ Captured(messages)[1].text # userMessage

\* the content is the empty string
IsEmpty(content) == content # FallbackAnswer /\ content.empty

\* C30: the content of a success result is never empty.  The final step of
\* a run whose last LLM response has empty content returns success: true
\* with the fallback sentence as content and stores that sentence as the
\* Assistant turn; any other final step returns and stores the response's
\* content.
C30_NeverEmptyContent ==
    /\ [](RunSucceeded => ~IsEmpty(result.content))
    /\ [][FinalStep =>
            LET expected == IF response'.empty THEN FallbackAnswer ELSE response'
                stored == chatHistory'[Len(chatHistory')]
            IN  /\ result'.success
                /\ result'.content = expected
                /\ stored.type = "ai"
                /\ stored.text = expected]_vars

\* a run whose only LLM response was empty has resolved with the fallback
\* sentence, which is also the Assistant turn at the end of the history
C30_Witness ==
    /\ RunSucceeded
    /\ llmCalls = 1
    /\ response.empty
    /\ result.content = FallbackAnswer
    /\ chatHistory[Len(chatHistory)].text = FallbackAnswer
    /\ chatHistory[Len(chatHistory)].type = "ai"

====
